---------------------------- MODULE Spec2Model ----------------------------
(***************************************************************************)
(* A model of the RummyVision game engine (src/server/rummy_engine.py):    *)
(* the card codec, the greedy meld finder, the deadwood evaluator, the     *)
(* Monte Carlo simulator, the confidence classifier and the /suggest       *)
(* handler.                                                                *)
(*                                                                         *)
(* Conventions.  A Python str is a sequence of one-character strings, so   *)
(* that split, strip and comparison are computed and not assumed.  None    *)
(* is the empty tuple.  Python list positions 0..n-1 are positions 1..n    *)
(* here.  Python floats are modelled by exact rationals [num, den] with    *)
(* den > 0 (deadwood scores, which are whole numbers, by integers).        *)
(***************************************************************************)
EXTENDS Integers, Sequences, FiniteSets, TLC

VARIABLES
    \* SpecMeld: the evaluator on its own
    hand,               \* the list of tokens handed to the evaluator
    out,                \* the last call made on it and what it returned
    \* SpecConf: get_confidence_level on its own
    conf_prob,          \* its argument prob
    conf_trials,        \* its argument trials
    conf_label,         \* what it returned, "none" before the call
    \* SpecSim: one call of simulate_game
    sim_pc,             \* where the call is: "call", "loop", "draws", "done"
    sim_hand,           \* the caller's list hand
    sim_deck,           \* the caller's list unknown_deck
    sim_trials,         \* the argument trials
    sim_max_draws,      \* the argument max_draws
    total_deadwood,
    improvements,
    initial_deadwood,
    trial,              \* iterations of the loop over range(trials) begun
    deck_copy,
    current_hand,
    best_deadwood,
    draw_num,           \* iterations of the loop over draw_num done in this trial
    sim_ret,            \* what the call returned or raised
    n_shuffles,         \* calls of random.shuffle so far
    n_draws,            \* draw steps so far
    \* Spec: one request to POST /suggest
    pc,                 \* "received", "handler", "loop", "done"
    request,            \* the request body: my_hand, visible, trials, max_draws
    unknown_deck,
    current_deadwood,
    results,            \* the suggestions appended so far
    next_card,          \* position in my_hand of the next card_to_discard
    sim_calls,          \* calls of simulate_game so far
    win_prob,           \* the improvement probability of the last simulate_game
    normalized_prob,    \* the normalized_prob of the last candidate
    response,           \* what the request was answered with
    \* SpecRng: calls that follow one another in one process
    rng,                \* the state of the generator of the module random
    served              \* the calls made so far, with what each returned

meldVars == <<hand, out>>

confVars == <<conf_prob, conf_trials, conf_label>>

simVars ==
    <<sim_pc, sim_hand, sim_deck, sim_trials, sim_max_draws, total_deadwood,
      improvements, initial_deadwood, trial, deck_copy, current_hand, best_deadwood,
      draw_num, sim_ret, n_shuffles, n_draws>>

reqVars ==
    <<pc, request, unknown_deck, current_deadwood, results, next_card, sim_calls,
      win_prob, normalized_prob, response>>

rngVars == <<rng, served>>

vars == <<meldVars, confVars, simVars, reqVars, rngVars>>

-----------------------------------------------------------------------------
(* Sequences and strings *)

Range(s) == {s[i] : i \in DOMAIN s}

Min(a, b) == IF a <= b THEN a ELSE b

Max(a, b) == IF a >= b THEN a ELSE b

\* The least member of a set of positions, 0 for the empty set.
FirstOf(at) == IF at = {} THEN 0 ELSE CHOOSE i \in at : \A j \in at : i <= j

\* Position of the first x in s, 0 when there is none.
IndexOf(s, x) == FirstOf({i \in DOMAIN s : s[i] = x})

\* The characters that occur in the model's strings, in code-point order.
Alphabet ==
    << " ", "-", "0", "1", "2", "3", "4", "5", "6", "7", "8", "9",
       "A", "H", "J", "K", "Q", "Z",
       "a", "b", "c", "d", "e", "h", "i", "k", "l", "m", "n", "o", "p",
       "r", "s", "t", "u" >>

CodePoints == [c \in Range(Alphabet) |-> IndexOf(Alphabet, c)]

Ord(c) == CodePoints[c]

\* Python's str < str: lexicographic by code point, a proper prefix first.
StrLess(a, b) ==
    \E i \in 1..(Len(b)) :
        /\ i <= Len(a) + 1
        /\ \A j \in 1..(i - 1) : a[j] = b[j]
        /\ (i = Len(a) + 1 \/ Ord(a[i]) < Ord(b[i]))

None == << >>

\* The whitespace characters str.strip() removes, of those the model uses.
IsSpace(c) == c \in {" ", "\t", "\n"}

RECURSIVE LStrip(_)
LStrip(s) == IF s # << >> /\ IsSpace(Head(s)) THEN LStrip(Tail(s)) ELSE s

RECURSIVE RStrip(_)
RStrip(s) ==
    IF s # << >> /\ IsSpace(s[Len(s)]) THEN RStrip(SubSeq(s, 1, Len(s) - 1)) ELSE s

\* str.strip()
Strip(s) == RStrip(LStrip(s))

\* str.split(sep) for a one-character separator: the list of the parts.
\* SplitAt is given the position i of the first separator, 0 for none.
RECURSIVE Split(_, _), SplitAt(_, _, _)
Split(s, sep) == SplitAt(s, sep, IndexOf(s, sep))

SplitAt(s, sep, i) ==
    IF i = 0 THEN << s >>
    ELSE << SubSeq(s, 1, i - 1) >> \o Split(SubSeq(s, i + 1, Len(s)), sep)

\* The stable sort of the list s by a strict order on its entries, given as
\* the set before of the pairs <<i, j>> of positions with s[i] ahead of s[j].
Sorted(s, before) ==
    LET n == Len(s)
        pos == [i \in 1..n |->
                  Cardinality({j \in 1..n : <<j, i>> \in before})
                  + Cardinality({j \in 1..(i - 1) :
                                    <<j, i>> \notin before /\ <<i, j>> \notin before})
                  + 1]
    IN  [p \in 1..n |-> s[CHOOSE i \in 1..n : pos[i] = p]]

-----------------------------------------------------------------------------
(* Card constants *)

SUITS ==
    << <<"h", "e", "a", "r", "t", "s">>,
       <<"d", "i", "a", "m", "o", "n", "d", "s">>,
       <<"c", "l", "u", "b", "s">>,
       <<"s", "p", "a", "d", "e", "s">> >>

RANKS ==
    << <<"A">>, <<"2">>, <<"3">>, <<"4">>, <<"5">>, <<"6">>, <<"7">>, <<"8">>,
       <<"9">>, <<"1", "0">>, <<"J">>, <<"Q">>, <<"K">> >>

\* RANK_VALUES.get(rank, 0)
RANK_VALUES(rank) == IndexOf(RANKS, rank)

\* A variant of DEADWOOD_VALUES without the cap at 10: the position in RANKS.
DEADWOOD_VALUES_Uncapped == [r \in Range(RANKS) |-> IndexOf(RANKS, r)]

\* The dictionary after its comprehension and the four assignments that follow.
DEADWOOD_VALUES ==
    LET base == [r \in Range(RANKS) |-> Min(IndexOf(RANKS, r), 10)]
    IN  [r \in Range(RANKS) |->
            CASE r = <<"J">> -> 10
              [] r = <<"Q">> -> 10
              [] r = <<"K">> -> 10
              [] r = <<"A">> -> 1
              [] OTHER -> base[r]]

-----------------------------------------------------------------------------
(* parse_card, build_deck *)

\* A variant of ParseParts that reads the first two of two or more parts.
ParseParts_AtLeastTwo(parts) ==
    IF Len(parts) < 2 THEN None
    ELSE LET rank == Strip(parts[1])
             suit == Strip(parts[2])
             rank_val == RANK_VALUES(rank)
         IN  IF rank_val = 0 \/ suit \notin Range(SUITS) THEN None
             ELSE <<rank_val, suit>>

\* The statements of parse_card after the split.
ParseParts(parts) ==
    IF Len(parts) # 2 THEN None
    ELSE LET rank == Strip(parts[1])
             suit == Strip(parts[2])
             rank_val == RANK_VALUES(rank)
         IN  IF rank_val = 0 \/ suit \notin Range(SUITS) THEN None
             ELSE <<rank_val, suit>>

\* None, or <<rank_val, suit>>.  No operation in the try block raises on a str.
parse_card(card_str) == ParseParts(Split(card_str, "-"))

\* f"{r}-{s}"
FormatCard(r, s) == r \o <<"-">> \o s

\* Outer loop over SUITS, inner loop over RANKS.
build_deck ==
    [k \in 1..(Len(SUITS) * Len(RANKS)) |->
        FormatCard(RANKS[((k - 1) % Len(RANKS)) + 1], SUITS[((k - 1) \div Len(RANKS)) + 1])]

\* The tokens the model's hands, decks and requests are made of: the 52 of
\* the deck, two more spellings of cards (blanks around the parts) and three
\* tokens that name no card (an unknown rank, a wrong case, no separator).
Tok(r, s) == FormatCard(RANKS[r], SUITS[s])

OddTokens ==
    { Tok(5, 1) \o <<" ">>,
      <<" ">> \o Tok(13, 2),
      <<"Z">> \o <<"-">> \o SUITS[1],
      <<"K", "-", "H", "e", "a", "r", "t", "s">>,
      <<"K">> \o SUITS[2] }

ModelTokens == Range(build_deck) \cup OddTokens

\* parse_card on the model's tokens, computed once.
ParseCache == [t \in ModelTokens |-> parse_card(t)]

Parsed(c) == IF c \in DOMAIN ParseCache THEN ParseCache[c] ELSE parse_card(c)

-----------------------------------------------------------------------------
(* find_melds *)

\* list(enumerate(parsed_hand)): the entries <<idx, <<rank, suit>>>>.
Enumerate(parsed_hand) == [i \in 1..Len(parsed_hand) |-> <<i, parsed_hand[i]>>]

\* The sort key (x[1][0], x[1][1]) of an enumerated entry: rank, then suit name.
HandKeyLess(a, b) ==
    \/ a[2][1] < b[2][1]
    \/ a[2][1] = b[2][1] /\ StrLess(a[2][2], b[2][2])

\* sorted(enumerate(parsed_hand), key=lambda x: (x[1][0], x[1][1]))
SortHand(entries) ==
    Sorted(entries,
           {p \in (DOMAIN entries) \X (DOMAIN entries) :
               HandKeyLess(entries[p[1]], entries[p[2]])})

\* The keys of a defaultdict(list) filled from entries, in insertion order.
RECURSIVE KeysInOrder(_)
KeysInOrder(keys) ==
    IF keys = << >> THEN << >>
    ELSE LET rest == KeysInOrder(SubSeq(keys, 1, Len(keys) - 1))
             k == keys[Len(keys)]
         IN  IF k \in Range(rest) THEN rest ELSE Append(rest, k)

\* rank_groups: <<rank, list of <<idx, suit>>>> per rank, in insertion order.
rank_groups(sorted_hand) ==
    LET ranks == KeysInOrder([i \in 1..Len(sorted_hand) |-> sorted_hand[i][2][1]])
    IN  [g \in 1..Len(ranks) |->
            <<ranks[g],
              LET sel == SelectSeq(sorted_hand, LAMBDA e : e[2][1] = ranks[g])
              IN  [i \in 1..Len(sel) |-> <<sel[i][1], sel[i][2][2]>>]>>]

\* The loop that fills set_cards: one card per suit not yet used, at most 4.
RECURSIVE TakeSuits(_, _, _, _, _)
TakeSuits(rank, cards, i, used_suits, set_cards) ==
    IF i > Len(cards) THEN set_cards
    ELSE LET idx == cards[i][1]
             suit == cards[i][2]
         IN  IF suit \notin used_suits
             THEN LET grown == Append(set_cards, <<idx, <<rank, suit>>>>)
                  IN  IF Len(grown) >= 4 THEN grown
                      ELSE TakeSuits(rank, cards, i + 1, used_suits \cup {suit}, grown)
             ELSE TakeSuits(rank, cards, i + 1, used_suits, set_cards)

\* set_cards if it makes a set, << >> if not.
AtLeastThree(set_cards) == IF Len(set_cards) >= 3 THEN set_cards ELSE << >>

\* The body of the loop over rank_groups for one rank: the set_cards that are
\* melded, << >> when the rank gives no set.
SetCardsOf(rank, cards) ==
    IF Len(cards) >= 3 /\ Cardinality({cards[i][2] : i \in DOMAIN cards}) >= 3
    THEN AtLeastThree(TakeSuits(rank, cards, 1, {}, << >>))
    ELSE << >>

\* A variant of AddSet that does not mark the cards of the set as matched.
AddSet_Unmarked(acc, set_cards) ==
    IF set_cards = << >> THEN acc
    ELSE [acc EXCEPT !.melds = Append(@, [i \in DOMAIN set_cards |-> set_cards[i][2]])]

\* acc with the meld of set_cards added, acc itself when set_cards is empty.
AddSet(acc, set_cards) ==
    IF set_cards = << >> THEN acc
    ELSE [matched_indices |->
              acc.matched_indices \cup {set_cards[i][1] : i \in DOMAIN set_cards},
          melds |-> Append(acc.melds, [i \in DOMAIN set_cards |-> set_cards[i][2]])]

\* Phase 1: the loop over rank_groups.items(), from group g on.
RECURSIVE FindSets(_, _, _)
FindSets(groups, g, acc) ==
    IF g > Len(groups) THEN acc
    ELSE FindSets(groups, g + 1, AddSet(acc, SetCardsOf(groups[g][1], groups[g][2])))

\* A variant of suit_groups whose groups come in the order of SUITS.
suit_groups_InSuitsOrder(sorted_hand, matched_indices) ==
    LET left == SelectSeq(sorted_hand, LAMBDA e : e[1] \notin matched_indices)
        suits == SelectSeq(SUITS, LAMBDA x : \E i \in DOMAIN left : left[i][2][2] = x)
    IN  [g \in 1..Len(suits) |->
            <<suits[g],
              LET sel == SelectSeq(left, LAMBDA e : e[2][2] = suits[g])
              IN  [i \in 1..Len(sel) |-> <<sel[i][1], sel[i][2][1]>>]>>]

\* suit_groups: <<suit, list of <<idx, rank>>>> over the unmatched entries.
suit_groups(sorted_hand, matched_indices) ==
    LET left == SelectSeq(sorted_hand, LAMBDA e : e[1] \notin matched_indices)
        suits == KeysInOrder([i \in 1..Len(left) |-> left[i][2][2]])
    IN  [g \in 1..Len(suits) |->
            <<suits[g],
              LET sel == SelectSeq(left, LAMBDA e : e[2][2] = suits[g])
              IN  [i \in 1..Len(sel) |-> <<sel[i][1], sel[i][2][1]>>]>>]

\* The key x[1] of cards.sort.
RunKeyLess(a, b) == a[2] < b[2]

\* cards.sort(key=lambda x: x[1])
SortByRank(cards) ==
    Sorted(cards,
           {p \in (DOMAIN cards) \X (DOMAIN cards) : RunKeyLess(cards[p[1]], cards[p[2]])})

\* A variant of ScanSequences that does not save the sequence the scan ends in.
RECURSIVE ScanSequences_LastDropped(_, _, _, _)
ScanSequences_LastDropped(cards, i, current_seq, sequences) ==
    IF i > Len(cards)
    THEN sequences
    ELSE IF cards[i][2] = cards[i - 1][2] + 1
         THEN ScanSequences_LastDropped(cards, i + 1, Append(current_seq, cards[i]),
                                        sequences)
         ELSE ScanSequences_LastDropped(cards, i + 1, << cards[i] >>,
                IF Len(current_seq) >= 3 THEN Append(sequences, current_seq)
                ELSE sequences)

\* The scan of one suit's sorted cards from position i: the sequences of
\* length >= 3, the last one included.
RECURSIVE ScanSequences(_, _, _, _)
ScanSequences(cards, i, current_seq, sequences) ==
    IF i > Len(cards)
    THEN IF Len(current_seq) >= 3 THEN Append(sequences, current_seq) ELSE sequences
    ELSE IF cards[i][2] = cards[i - 1][2] + 1
         THEN ScanSequences(cards, i + 1, Append(current_seq, cards[i]), sequences)
         ELSE ScanSequences(cards, i + 1, << cards[i] >>,
                IF Len(current_seq) >= 3 THEN Append(sequences, current_seq)
                ELSE sequences)

\* "Add sequences to melds", from sequence k on.
RECURSIVE AddSequences(_, _, _, _)
AddSequences(suit, sequences, k, acc) ==
    IF k > Len(sequences) THEN acc
    ELSE LET seq == sequences[k]
             run_cards == [i \in DOMAIN seq |-> <<seq[i][1], <<seq[i][2], suit>>>>]
         IN  AddSequences(suit, sequences, k + 1,
                [matched_indices |->
                    acc.matched_indices \cup {run_cards[i][1] : i \in DOMAIN run_cards},
                 melds |->
                    Append(acc.melds, [i \in DOMAIN run_cards |-> run_cards[i][2]])])

\* The sequences of one suit's cards, sorted by rank.
SequencesOf(cards) == ScanSequences(cards, 2, << cards[1] >>, << >>)

\* Phase 2: the loop over suit_groups.items(), from group g on.
RECURSIVE FindRuns(_, _, _)
FindRuns(groups, g, acc) ==
    IF g > Len(groups) THEN acc
    ELSE IF Len(groups[g][2]) < 3 THEN FindRuns(groups, g + 1, acc)
    ELSE FindRuns(groups, g + 1,
                  AddSequences(groups[g][1],
                               SequencesOf(SortByRank(groups[g][2])), 1, acc))

\* Phase 2 after phase 1 gave sets.
FindRunsAfter(sorted_hand, sets) ==
    FindRuns(suit_groups(sorted_hand, sets.matched_indices), 1, sets)

NoMelds == [matched_indices |-> {}, melds |-> << >>]

\* A variant of FindMeldsSorted that looks for the runs first and for the sets
\* among the cards the runs left.
FindMeldsSorted_RunsFirst(sorted_hand) ==
    LET runs == FindRuns(suit_groups(sorted_hand, {}), 1, NoMelds)
        left == SelectSeq(sorted_hand, LAMBDA e : e[1] \notin runs.matched_indices)
    IN  FindSets(rank_groups(left), 1, runs)

\* The two phases on the sorted hand.
FindMeldsSorted(sorted_hand) ==
    FindRunsAfter(sorted_hand, FindSets(rank_groups(sorted_hand), 1, NoMelds))

\* [matched_indices, melds]; a meld is the list of its <<rank, suit>> cards.
find_melds(parsed_hand) ==
    IF parsed_hand = << >> THEN NoMelds
    ELSE FindMeldsSorted(SortHand(Enumerate(parsed_hand)))

-----------------------------------------------------------------------------
(* calculate_deadwood *)

\* [parse_card(c) for c in hand if parse_card(c)]
ParsedHand(tokens) ==
    SelectSeq([i \in DOMAIN tokens |-> Parsed(tokens[i])], LAMBDA parsed : parsed # None)

\* The sum of the scores of positions i..Len(parsed_hand) not in matched_indices.
RECURSIVE SumUnmatched(_, _, _)
SumUnmatched(parsed_hand, matched_indices, i) ==
    IF i > Len(parsed_hand) THEN 0
    ELSE (IF i \notin matched_indices
          THEN DEADWOOD_VALUES[RANKS[parsed_hand[i][1]]]
          ELSE 0)
         + SumUnmatched(parsed_hand, matched_indices, i + 1)

\* The statements of calculate_deadwood after parsed_hand is built.
DeadwoodOfParsed(parsed_hand) ==
    IF parsed_hand = << >> THEN 0
    ELSE SumUnmatched(parsed_hand, find_melds(parsed_hand).matched_indices, 1)

calculate_deadwood(tokens) == DeadwoodOfParsed(ParsedHand(tokens))

\* calculate_deadwood of the hands of up to 4 of the cards Ah 2h 3h, 9c, Kd,
\* 5s, Qc, Js (the hands the trials of SpecSim hold), worked out once; @@ makes
\* the function an explicit table.
DeadwoodCache ==
    [h \in UNION {[1..k -> {Tok(1, 1), Tok(2, 1), Tok(3, 1), Tok(9, 3), Tok(13, 2),
                            Tok(5, 4), Tok(12, 3), Tok(11, 4)}] : k \in 0..4}
        |-> calculate_deadwood(h)] @@ << >>

Deadwood(tokens) ==
    IF tokens \in DOMAIN DeadwoodCache THEN DeadwoodCache[tokens]
    ELSE calculate_deadwood(tokens)

-----------------------------------------------------------------------------
(* validate_card *)

\* The answer of validate_card, given what parse_card returned.
ValidateParsed(parsed) ==
    IF parsed # None
    THEN [valid |-> TRUE,
          rank |-> RANKS[parsed[1]],
          suit |-> parsed[2],
          deadwood_value |-> DEADWOOD_VALUES[RANKS[parsed[1]]]]
    ELSE [valid |-> FALSE,
          message |-> "Invalid card format. Expected 'Rank-Suit' (e.g., 'A-hearts')"]

validate_card(card) == ValidateParsed(parse_card(card))

-----------------------------------------------------------------------------
(* Floats, as exact rationals in lowest terms *)

RECURSIVE GCD(_, _)
GCD(a, b) == IF b = 0 THEN a ELSE GCD(b, a % b)

Abs(n) == IF n < 0 THEN -n ELSE n

\* n / d for d > 0.
Frac(n, d) ==
    LET g == GCD(Abs(n), d)
    IN  [num |-> n \div g, den |-> d \div g]

RatLess(a, b) == a.num * b.den < b.num * a.den

RatLeq(a, b) == a.num * b.den <= b.num * a.den

RatMul(a, b) == Frac(a.num * b.num, a.den * b.den)

RatSub(a, b) == Frac(a.num * b.den - b.num * a.den, a.den * b.den)

\* a / n for an integer n > 0.
RatDivInt(a, n) == Frac(a.num, a.den * n)

\* Python's min(a, b) and max(a, b): the first argument unless the second is
\* strictly smaller (larger).
RatMin(a, b) == IF RatLess(b, a) THEN b ELSE a

RatMax(a, b) == IF RatLess(a, b) THEN b ELSE a

\* round(x, 2): the nearest hundredth, an exact tie to the even one.
Round2(x) ==
    LET scaled == x.num * 100
        q == scaled \div x.den
        r == scaled % x.den
        up == \/ 2 * r > x.den
              \/ 2 * r = x.den /\ q % 2 = 1
    IN  Frac(IF up THEN q + 1 ELSE q, 100)

-----------------------------------------------------------------------------
(* simulate_game *)

\* [c for c in xs if c != x]
RemoveAll(xs, x) == SelectSeq(xs, LAMBDA c : c # x)

\* xs without its entry at position i.
RemoveAt(xs, i) == SubSeq(xs, 1, i - 1) \o SubSeq(xs, i + 1, Len(xs))

\* xs.remove(x), for an x that xs holds: xs without the first x.
RemoveFirst(xs, x) == RemoveAt(xs, IndexOf(xs, x))

\* A str or None as a condition: None and the empty str are false.
Truthy(x) == x # << >>

NoDiscard == [found |-> FALSE, best_after_draw |-> 0, best_discard_card |-> None]

\* A variant of Better for a search in which the last of the best cards wins.
Better_LastWins(acc, card_to_try_discarding, dw) ==
    IF ~acc.found \/ dw <= acc.best_after_draw
    THEN [found |-> TRUE, best_after_draw |-> dw,
          best_discard_card |-> card_to_try_discarding]
    ELSE acc

\* The body of the loop over card_to_try_discarding, given the deadwood dw of
\* the hand without the card.  found is FALSE while best_after_draw is still
\* float('inf') and best_discard_card None.
Better(acc, card_to_try_discarding, dw) ==
    IF ~acc.found \/ dw < acc.best_after_draw
    THEN [found |-> TRUE, best_after_draw |-> dw,
          best_discard_card |-> card_to_try_discarding]
    ELSE acc

\* A variant of BestDiscard whose loop stops before the last card of the hand,
\* the card drawn.
RECURSIVE BestDiscard_DrawnSkipped(_, _, _)
BestDiscard_DrawnSkipped(cards, i, acc) ==
    IF i > Len(cards) - 1 THEN acc
    ELSE BestDiscard_DrawnSkipped(cards, i + 1,
            Better(acc, cards[i], Deadwood(RemoveAll(cards, cards[i]))))

\* The loop over card_to_try_discarding from position i on.
RECURSIVE BestDiscard(_, _, _)
BestDiscard(cards, i, acc) ==
    IF i > Len(cards) THEN acc
    ELSE BestDiscard(cards, i + 1,
                     Better(acc, cards[i], Deadwood(RemoveAll(cards, cards[i]))))

\* A variant of CommitOrRevert whose revert leaves the drawn card in the hand.
CommitOrRevert_DrawnKept(st, drawn, drawn_hand, best, initial) ==
    IF /\ best.found
       /\ best.best_after_draw < st.best_deadwood
       /\ Truthy(best.best_discard_card)
    THEN [current_hand |-> RemoveAll(drawn_hand, best.best_discard_card),
          best_deadwood |-> best.best_after_draw,
          improvements |->
              IF best.best_after_draw < initial
              THEN st.improvements + 1 ELSE st.improvements]
    ELSE [st EXCEPT !.current_hand = drawn_hand]

\* A variant of CommitOrRevert that counts a trial as improved once, at its
\* first commit.
CommitOrRevert_OncePerTrial(st, drawn, drawn_hand, best, initial) ==
    IF /\ best.found
       /\ best.best_after_draw < st.best_deadwood
       /\ Truthy(best.best_discard_card)
    THEN [current_hand |-> RemoveAll(drawn_hand, best.best_discard_card),
          best_deadwood |-> best.best_after_draw,
          improvements |->
              IF best.best_after_draw < initial /\ st.best_deadwood = initial
              THEN st.improvements + 1 ELSE st.improvements]
    ELSE [st EXCEPT !.current_hand = RemoveFirst(drawn_hand, drawn)]

\* The end of a draw step, on the hand with the drawn card and the best
\* discard found: commit or revert.
CommitOrRevert(st, drawn, drawn_hand, best, initial) ==
    IF /\ best.found
       /\ best.best_after_draw < st.best_deadwood
       /\ Truthy(best.best_discard_card)
    THEN [current_hand |-> RemoveAll(drawn_hand, best.best_discard_card),
          best_deadwood |-> best.best_after_draw,
          improvements |->
              IF best.best_after_draw < initial
              THEN st.improvements + 1 ELSE st.improvements]
    ELSE [st EXCEPT !.current_hand = RemoveFirst(drawn_hand, drawn)]

\* One iteration of the loop over draw_num, on st = [current_hand,
\* best_deadwood, improvements]: draw, search, then commit or revert.
DrawStep(st, drawn, initial) ==
    CommitOrRevert(st, drawn, Append(st.current_hand, drawn),
                   BestDiscard(Append(st.current_hand, drawn), 1, NoDiscard), initial)

\* A variant of NumDraws for a loop that ends one draw early.
NumDraws_OneLess(max_draws, shuffled) == Max(0, Min(max_draws, Len(shuffled)) - 1)

\* range(min(max_draws, len(deck_copy)))
NumDraws(max_draws, shuffled) == Max(0, Min(max_draws, Len(shuffled)))

\* The iterations d..n of the loop over draw_num (d counts from 1).
RECURSIVE RunDraws(_, _, _, _, _)
RunDraws(st, shuffled, d, n, initial) ==
    IF d > n THEN st
    ELSE RunDraws(DrawStep(st, shuffled[d], initial),
                  shuffled, d + 1, n, initial)

\* What a trial that ends in st adds to total_deadwood and to improvements.
Outcome(st) == [best_deadwood |-> st.best_deadwood, improvements |-> st.improvements]

\* One trial on a shuffled deck.
TrialResult(tokens, shuffled, max_draws, initial) ==
    Outcome(RunDraws([current_hand |-> tokens, best_deadwood |-> initial,
                      improvements |-> 0],
                     shuffled, 1, NumDraws(max_draws, shuffled), initial))

\* random.shuffle: every arrangement of the list may result.
Shuffles(xs) ==
    LET n == Len(xs)
    IN  {[i \in 1..n |-> xs[f[i]]] :
            f \in {g \in [1..n -> 1..n] : \A i, j \in 1..n : g[i] = g[j] => i = j}}

\* The first n entries of the shuffles of xs: an arrangement of n of its
\* positions.
RECURSIVE DrawOrders(_, _, _)
DrawOrders(xs, n, used) ==
    IF n = 0 THEN {<< >>}
    ELSE UNION {{<<xs[i]>> \o rest : rest \in DrawOrders(xs, n - 1, used \cup {i})} :
                    i \in DOMAIN xs \ used}

\* What one trial can add, over every shuffle.
TrialOutcomes(tokens, deck, max_draws) ==
    LET initial == calculate_deadwood(tokens)
    IN  {TrialResult(tokens, order, max_draws, initial) :
            order \in DrawOrders(deck, NumDraws(max_draws, deck), {})}

\* The sums of `trials` trials' outcomes: k trials end with the first outcome
\* of the list, the others with the outcomes after it.
RECURSIVE TrialSums(_, _)
TrialSums(outcomes, trials) ==
    IF Len(outcomes) = 1
    THEN {[total_deadwood |-> trials * outcomes[1].best_deadwood,
           improvements |-> trials * outcomes[1].improvements]}
    ELSE UNION {{[total_deadwood |-> k * outcomes[1].best_deadwood + rest.total_deadwood,
                  improvements |-> k * outcomes[1].improvements + rest.improvements] :
                    rest \in TrialSums(Tail(outcomes), trials - k)} :
                k \in 0..trials}

\* A set as a list, in some order.
RECURSIVE SetToSeq(_)
SetToSeq(S) ==
    IF S = {} THEN << >>
    ELSE LET x == CHOOSE y \in S : TRUE IN <<x>> \o SetToSeq(S \ {x})

\* The pairs (avg_deadwood, improvement_prob) simulate_game can return, for
\* trials > 0.
simulate_game(tokens, deck, trials, max_draws) ==
    IF deck = << >>
    THEN {[avg_deadwood |-> Frac(calculate_deadwood(tokens), 1),
           improvement_prob |-> Frac(0, 1)]}
    ELSE {[avg_deadwood |-> Frac(sums.total_deadwood, trials),
           improvement_prob |-> Frac(sums.improvements, trials)] :
            sums \in TrialSums(SetToSeq(TrialOutcomes(tokens, deck, max_draws)),
                               trials)}

-----------------------------------------------------------------------------
(* get_confidence_level *)

\* A variant of get_confidence_level whose thresholds are exclusive.
get_confidence_level_Exclusive(prob, trials) ==
    IF trials >= 500
    THEN IF RatLess(Frac(7, 10), prob) THEN "high"
         ELSE IF RatLess(Frac(4, 10), prob) THEN "medium"
         ELSE "low"
    ELSE IF trials >= 200
    THEN IF RatLess(Frac(75, 100), prob) THEN "high"
         ELSE IF RatLess(Frac(45, 100), prob) THEN "medium"
         ELSE "low"
    ELSE IF RatLess(Frac(8, 10), prob) THEN "high"
         ELSE IF RatLess(Frac(5, 10), prob) THEN "medium"
         ELSE "low"

get_confidence_level(prob, trials) ==
    IF trials >= 500
    THEN IF RatLeq(Frac(7, 10), prob) THEN "high"
         ELSE IF RatLeq(Frac(4, 10), prob) THEN "medium"
         ELSE "low"
    ELSE IF trials >= 200
    THEN IF RatLeq(Frac(75, 100), prob) THEN "high"
         ELSE IF RatLeq(Frac(45, 100), prob) THEN "medium"
         ELSE "low"
    ELSE IF RatLeq(Frac(8, 10), prob) THEN "high"
         ELSE IF RatLeq(Frac(5, 10), prob) THEN "medium"
         ELSE "low"

-----------------------------------------------------------------------------
(* suggest_discard: what one loop iteration and the tail compute *)

\* [c for c in full_deck if c not in my_hand_set and c not in visible_set]
UnknownDeck(my_hand, visible) ==
    LET full_deck == build_deck
        my_hand_set == Range(my_hand)
        visible_set == Range(visible)
    IN  SelectSeq(full_deck, LAMBDA c : c \notin my_hand_set /\ c \notin visible_set)

\* normalized_prob of a candidate, from what simulate_game returned.
NormalizedProb(avg_deadwood, improvement_prob, cur_deadwood) ==
    IF cur_deadwood > 0
    THEN RatMul(improvement_prob,
                RatSub(Frac(1, 1),
                       RatMin(RatDivInt(avg_deadwood, cur_deadwood + 1), Frac(1, 1))))
    ELSE improvement_prob

\* A variant of Clamp01 without the upper bound.
Clamp01_FromBelow(prob) == RatMax(prob, Frac(0, 1))

\* min(max(normalized_prob, 0.0), 1.0)
Clamp01(prob) == RatMin(RatMax(prob, Frac(0, 1)), Frac(1, 1))

\* The DiscardSuggestion built for card_to_discard.
\* A variant of Suggestion whose confidence is that of the top tier of trials.
Suggestion_TopTier(card_to_discard, prob, avg_deadwood, trials) ==
    [card |-> card_to_discard,
     win_probability |-> Clamp01(prob),
     expected_deadwood |-> Round2(avg_deadwood),
     confidence |-> get_confidence_level(prob, 500)]

\* prob is the normalized_prob of the candidate: the confidence is taken from
\* it as it is, the win_probability from its clamped value.
Suggestion(card_to_discard, prob, avg_deadwood, trials) ==
    [card |-> card_to_discard,
     win_probability |-> Clamp01(prob),
     expected_deadwood |-> Round2(avg_deadwood),
     confidence |-> get_confidence_level(prob, trials)]

\* The constraints of the model DiscardSuggestion: 0.0 <= win_probability <= 1.0.
ValidSuggestion(sug) ==
    /\ RatLeq(Frac(0, 1), sug.win_probability)
    /\ RatLeq(sug.win_probability, Frac(1, 1))

\* A variant of SuggestionBefore under the key win_probability alone.
SuggestionBefore_ProbabilityOnly(a, b) == RatLess(b.win_probability, a.win_probability)

\* a goes before b under key (win_probability, -expected_deadwood), reverse=True.
SuggestionBefore(a, b) ==
    \/ RatLess(b.win_probability, a.win_probability)
    \/ /\ a.win_probability = b.win_probability
       /\ RatLess(a.expected_deadwood, b.expected_deadwood)

\* A variant of SortResults that keeps the suggestions of distinct
\* win_probability only.
SortResults_Distinct(rs) ==
    LET sorted == Sorted(rs, {p \in (DOMAIN rs) \X (DOMAIN rs) :
                                 SuggestionBefore(rs[p[1]], rs[p[2]])})
    IN  SelectSeq(sorted, LAMBDA sug :
            \A i \in DOMAIN sorted :
                sorted[i].win_probability = sug.win_probability => sorted[i] = sug)

\* results.sort(...): stable, so equal keys keep the order of the hand.
SortResults(rs) ==
    Sorted(rs, {p \in (DOMAIN rs) \X (DOMAIN rs) : SuggestionBefore(rs[p[1]], rs[p[2]])})

LowProbabilityMessage ==
    "All discard options show low win probability. Consider your current hand carefully."

\* The SuggestResponse of the tail of the handler.
SuggestResponse(rs, cur_deadwood) ==
    LET sorted == SortResults(rs)
    IN  [status |-> 200,
         suggestions |-> sorted,
         current_deadwood |-> Round2(Frac(cur_deadwood, 1)),
         message |->
            IF Len(sorted) > 0 /\ RatLess(sorted[1].win_probability, Frac(3, 10))
            THEN LowProbabilityMessage ELSE None]

-----------------------------------------------------------------------------
(* The variables of a specification that is not running *)

IdleMeld ==
    /\ hand = << >>
    /\ out = [op |-> "none", val |-> << >>]

IdleConf ==
    /\ conf_prob = Frac(0, 1)
    /\ conf_trials = 0
    /\ conf_label = "none"

IdleSim ==
    /\ sim_pc = "idle"
    /\ sim_hand = << >>
    /\ sim_deck = << >>
    /\ sim_trials = 0
    /\ sim_max_draws = 0
    /\ total_deadwood = 0
    /\ improvements = 0
    /\ initial_deadwood = 0
    /\ trial = 0
    /\ deck_copy = << >>
    /\ current_hand = << >>
    /\ best_deadwood = 0
    /\ draw_num = 0
    /\ sim_ret = [kind |-> "none"]
    /\ n_shuffles = 0
    /\ n_draws = 0

IdleReq ==
    /\ pc = "idle"
    /\ request = [my_hand |-> << >>, visible |-> << >>, trials |-> 0, max_draws |-> 0]
    /\ unknown_deck = << >>
    /\ current_deadwood = 0
    /\ results = << >>
    /\ next_card = 0
    /\ sim_calls = 0
    /\ win_prob = Frac(0, 1)
    /\ normalized_prob = Frac(0, 1)
    /\ response = [status |-> 0]

IdleRng ==
    /\ rng = 0
    /\ served = << >>

-----------------------------------------------------------------------------
(* The evaluator on its own: find_melds and calculate_deadwood applied to   *)
(* hands drawn from bounded sets.                                           *)

MaxHandLen == 6     \* cards of MeldCards in one hand
MaxSeqLen == 4      \* length of a hand drawn freely from FreeTokens

\* 5h 5d 5c 5s, 6h 7h 8h, Ac 2c 3c, 10s Js Qs, Kd, 6d 6c
MeldCards ==
    << Tok(5, 1), Tok(5, 2), Tok(5, 3), Tok(5, 4), Tok(6, 1), Tok(7, 1), Tok(8, 1),
       Tok(1, 3), Tok(2, 3), Tok(3, 3), Tok(10, 4), Tok(11, 4), Tok(12, 4), Tok(13, 2),
       Tok(6, 2), Tok(6, 3) >>

\* Tokens a hand may repeat and mix freely: cards, a second spelling of 5h
\* (trailing blank) and a token that does not parse.
FreeTokens ==
    { Tok(5, 1), Tok(5, 2), Tok(5, 3), Tok(6, 1),
      Tok(5, 1) \o <<" ">>, <<"Z">> \o <<"-">> \o SUITS[1] }

\* The entries of s at the positions in S, in the order of s.
SubList(s, S) == SelectSeq([i \in DOMAIN s |-> IF i \in S THEN <<s[i]>> ELSE << >>],
                           LAMBDA e : e # << >>)

Picked(s, S) == LET sub == SubList(s, S) IN [i \in DOMAIN sub |-> sub[i][1]]

Reversed(s) == [i \in DOMAIN s |-> s[Len(s) + 1 - i]]

SeqsUpTo(S, n) == UNION {[1..k -> S] : k \in 0..n}

MeldHands ==
    LET subs == {Picked(MeldCards, S) :
                    S \in {T \in SUBSET DOMAIN MeldCards : Cardinality(T) <= MaxHandLen}}
    IN  subs \cup {Reversed(h) : h \in subs} \cup SeqsUpTo(FreeTokens, MaxSeqLen)

InitMeld ==
    /\ hand \in MeldHands
    /\ out = [op |-> "none", val |-> << >>]
    /\ IdleConf
    /\ IdleSim
    /\ IdleReq
    /\ IdleRng

CallFindMelds ==
    /\ out.op = "none"
    /\ out' = [op |-> "find_melds", val |-> find_melds(ParsedHand(hand))]
    /\ UNCHANGED <<hand, confVars, simVars, reqVars, rngVars>>

CallCalculateDeadwood ==
    /\ out.op = "none"
    /\ out' = [op |-> "calculate_deadwood", val |-> calculate_deadwood(hand)]
    /\ UNCHANGED <<hand, confVars, simVars, reqVars, rngVars>>

NextMeld == CallFindMelds \/ CallCalculateDeadwood

SpecMeld == InitMeld /\ [][NextMeld]_vars

-----------------------------------------------------------------------------
(* The card codec on its own: parse_card and validate_card applied to one   *)
(* string, held as the only entry of hand.                                  *)

\* What stands where the rank should: the ranks, and strings that are none.
RankLike ==
    Range(RANKS) \cup {<< >>, <<"Z">>, <<"k">>, <<"1">>, <<"1", "1">>, <<"1", " ", "0">>}

\* What stands where the suit should: the suits, and strings that are none.
SuitLike ==
    Range(SUITS) \cup {<< >>, <<"H", "e", "a", "r", "t", "s">>, <<"h", "e", "a", "r", "t">>}

OuterPads == {<< >>, <<" ">>, <<"\t", " ">>}

InnerPads == {<< >>, <<" ">>}

\* Between rank and suit: the separator, none, two of them.
Separators == {<<"-">>, << >>, <<"-", "-">>}

\* After the suit: nothing, or a third part.
Suffixes == {<< >>, <<"-">>, <<"-", "x">>}

ParseInputs ==
    {a \o r \o b \o sep \o c \o u \o d \o x :
        a \in OuterPads, r \in RankLike, b \in InnerPads, sep \in Separators,
        c \in InnerPads, u \in SuitLike, d \in OuterPads, x \in Suffixes}

InitParse ==
    /\ hand \in {<< t >> : t \in ParseInputs}
    /\ out = [op |-> "none", val |-> << >>]
    /\ IdleConf
    /\ IdleSim
    /\ IdleReq
    /\ IdleRng

CallParseCard ==
    /\ out.op = "none"
    /\ out' = [op |-> "parse_card", val |-> parse_card(hand[1])]
    /\ UNCHANGED <<hand, confVars, simVars, reqVars, rngVars>>

CallValidateCard ==
    /\ out.op = "none"
    /\ out' = [op |-> "validate_card", val |-> validate_card(hand[1])]
    /\ UNCHANGED <<hand, confVars, simVars, reqVars, rngVars>>

NextParse == CallParseCard \/ CallValidateCard

SpecParse == InitParse /\ [][NextParse]_vars

-----------------------------------------------------------------------------
(* get_confidence_level on its own *)

ProbSteps == 20     \* prob ranges over the multiples of 1/ProbSteps up to 5/4

ConfProbs == {Frac(n, ProbSteps) : n \in 0..(ProbSteps + ProbSteps \div 4)}

ConfTrials == {1, 50, 199, 200, 201, 499, 500, 501, 2000}

InitConf ==
    /\ conf_prob \in ConfProbs
    /\ conf_trials \in ConfTrials
    /\ conf_label = "none"
    /\ IdleMeld
    /\ IdleSim
    /\ IdleReq
    /\ IdleRng

CallGetConfidenceLevel ==
    /\ conf_label = "none"
    /\ conf_label' = get_confidence_level(conf_prob, conf_trials)
    /\ UNCHANGED <<conf_prob, conf_trials, meldVars, simVars, reqVars, rngVars>>

NextConf == CallGetConfidenceLevel

SpecConf == InitConf /\ [][NextConf]_vars

-----------------------------------------------------------------------------
(* One call of simulate_game, step by step *)

MaxTrials == 2      \* trials of a call ranges over 0..MaxTrials
MaxDrawsSim == 2    \* max_draws of a call ranges over 1..MaxDrawsSim

\* Ah 2h, Kd, 5s, Qc Js
SimHands ==
    { << >>, << Tok(13, 2) >>, << Tok(13, 2), Tok(5, 4) >>, << Tok(1, 1), Tok(2, 1) >>,
      << Tok(1, 1), Tok(2, 1), Tok(13, 2) >>, << Tok(12, 3), Tok(11, 4) >> }

\* 3h, 9c and Kd, which some of the hands hold too
SimDeckCards == << Tok(3, 1), Tok(9, 3), Tok(13, 2) >>

SimDecks == {Picked(SimDeckCards, S) : S \in SUBSET DOMAIN SimDeckCards}

InitSim ==
    /\ sim_pc = "call"
    /\ sim_hand \in SimHands
    /\ sim_deck \in SimDecks
    /\ sim_trials \in 0..MaxTrials
    /\ sim_max_draws \in 1..MaxDrawsSim
    /\ total_deadwood = 0
    /\ improvements = 0
    /\ initial_deadwood = 0
    /\ trial = 0
    /\ deck_copy = << >>
    /\ current_hand = << >>
    /\ best_deadwood = 0
    /\ draw_num = 0
    /\ sim_ret = [kind |-> "none"]
    /\ n_shuffles = 0
    /\ n_draws = 0
    /\ IdleMeld
    /\ IdleConf
    /\ IdleReq
    /\ IdleRng

\* The call with no unknown card: the early return.
SimReturnEarly ==
    /\ sim_pc = "call"
    /\ sim_deck = << >>
    /\ sim_ret' = [kind |-> "return",
                   avg_deadwood |-> Frac(Deadwood(sim_hand), 1),
                   improvement_prob |-> Frac(0, 1)]
    /\ sim_pc' = "done"
    /\ UNCHANGED <<sim_hand, sim_deck, sim_trials, sim_max_draws, total_deadwood,
                   improvements, initial_deadwood, trial, deck_copy, current_hand,
                   best_deadwood, draw_num, n_shuffles, n_draws>>
    /\ UNCHANGED <<meldVars, confVars, reqVars, rngVars>>

\* A variant of SimEnter for a simulate_game without the test of unknown_deck.
SimEnter_Untested ==
    /\ sim_pc = "call"
    /\ total_deadwood' = 0
    /\ improvements' = 0
    /\ initial_deadwood' = Deadwood(sim_hand)
    /\ sim_pc' = "loop"
    /\ UNCHANGED <<sim_hand, sim_deck, sim_trials, sim_max_draws, trial, deck_copy,
                   current_hand, best_deadwood, draw_num, sim_ret, n_shuffles, n_draws>>
    /\ UNCHANGED <<meldVars, confVars, reqVars, rngVars>>

\* The statements before the loop over the trials.
SimEnter ==
    /\ sim_pc = "call"
    /\ sim_deck # << >>
    /\ total_deadwood' = 0
    /\ improvements' = 0
    /\ initial_deadwood' = Deadwood(sim_hand)
    /\ sim_pc' = "loop"
    /\ UNCHANGED <<sim_hand, sim_deck, sim_trials, sim_max_draws, trial, deck_copy,
                   current_hand, best_deadwood, draw_num, sim_ret, n_shuffles, n_draws>>
    /\ UNCHANGED <<meldVars, confVars, reqVars, rngVars>>

\* A variant of SimStartTrial whose best_deadwood starts above every deadwood,
\* as best_after_draw does.
SimStartTrial_BestUnset ==
    /\ sim_pc = "loop"
    /\ trial < sim_trials
    /\ trial' = trial + 1
    /\ deck_copy' \in Shuffles(sim_deck)
    /\ n_shuffles' = n_shuffles + 1
    /\ current_hand' = sim_hand
    /\ best_deadwood' = 10 * (Len(sim_hand) + Len(sim_deck)) + 1
    /\ draw_num' = 0
    /\ sim_pc' = "draws"
    /\ UNCHANGED <<sim_hand, sim_deck, sim_trials, sim_max_draws, total_deadwood,
                   improvements, initial_deadwood, sim_ret, n_draws>>
    /\ UNCHANGED <<meldVars, confVars, reqVars, rngVars>>

\* A variant of SimStartTrial that shuffles unknown_deck itself, not a copy.
SimStartTrial_SharedDeck ==
    /\ sim_pc = "loop"
    /\ trial < sim_trials
    /\ trial' = trial + 1
    /\ deck_copy' \in Shuffles(sim_deck)
    /\ sim_deck' = deck_copy'
    /\ n_shuffles' = n_shuffles + 1
    /\ current_hand' = sim_hand
    /\ best_deadwood' = initial_deadwood
    /\ draw_num' = 0
    /\ sim_pc' = "draws"
    /\ UNCHANGED <<sim_hand, sim_trials, sim_max_draws, total_deadwood,
                   improvements, initial_deadwood, sim_ret, n_draws>>
    /\ UNCHANGED <<meldVars, confVars, reqVars, rngVars>>

\* The head of a trial: the shuffled copy of the deck, the copy of the hand.
SimStartTrial ==
    /\ sim_pc = "loop"
    /\ trial < sim_trials
    /\ trial' = trial + 1
    /\ deck_copy' \in Shuffles(sim_deck)
    /\ n_shuffles' = n_shuffles + 1
    /\ current_hand' = sim_hand
    /\ best_deadwood' = initial_deadwood
    /\ draw_num' = 0
    /\ sim_pc' = "draws"
    /\ UNCHANGED <<sim_hand, sim_deck, sim_trials, sim_max_draws, total_deadwood,
                   improvements, initial_deadwood, sim_ret, n_draws>>
    /\ UNCHANGED <<meldVars, confVars, reqVars, rngVars>>

\* One draw of the trial.
SimDraw ==
    /\ sim_pc = "draws"
    /\ draw_num < NumDraws(sim_max_draws, deck_copy)
    /\ LET st == DrawStep([current_hand |-> current_hand,
                           best_deadwood |-> best_deadwood,
                           improvements |-> improvements],
                          deck_copy[draw_num + 1], initial_deadwood)
       IN  /\ current_hand' = st.current_hand
           /\ best_deadwood' = st.best_deadwood
           /\ improvements' = st.improvements
    /\ draw_num' = draw_num + 1
    /\ n_draws' = n_draws + 1
    /\ UNCHANGED <<sim_pc, sim_hand, sim_deck, sim_trials, sim_max_draws,
                   total_deadwood, initial_deadwood, trial, deck_copy, sim_ret,
                   n_shuffles>>
    /\ UNCHANGED <<meldVars, confVars, reqVars, rngVars>>

\* The end of a trial: its best_deadwood is added to the total.
SimEndTrial ==
    /\ sim_pc = "draws"
    /\ draw_num >= NumDraws(sim_max_draws, deck_copy)
    /\ total_deadwood' = total_deadwood + best_deadwood
    /\ sim_pc' = "loop"
    /\ UNCHANGED <<sim_hand, sim_deck, sim_trials, sim_max_draws, improvements,
                   initial_deadwood, trial, deck_copy, current_hand, best_deadwood,
                   draw_num, sim_ret, n_shuffles, n_draws>>
    /\ UNCHANGED <<meldVars, confVars, reqVars, rngVars>>

\* After the last trial: the two averages, or the division by trials = 0.
SimReturn ==
    /\ sim_pc = "loop"
    /\ trial >= sim_trials
    /\ sim_ret' =
          IF sim_trials = 0 THEN [kind |-> "ZeroDivisionError"]
          ELSE [kind |-> "return",
                avg_deadwood |-> Frac(total_deadwood, sim_trials),
                improvement_prob |-> Frac(improvements, sim_trials)]
    /\ sim_pc' = "done"
    /\ UNCHANGED <<sim_hand, sim_deck, sim_trials, sim_max_draws, total_deadwood,
                   improvements, initial_deadwood, trial, deck_copy, current_hand,
                   best_deadwood, draw_num, n_shuffles, n_draws>>
    /\ UNCHANGED <<meldVars, confVars, reqVars, rngVars>>

NextSim ==
    \/ SimReturnEarly
    \/ SimEnter
    \/ SimStartTrial
    \/ SimDraw
    \/ SimEndTrial
    \/ SimReturn

SpecSim == InitSim /\ [][NextSim]_vars

\* simulate_game runs in one thread from its call to its return: a step that
\* can be taken is taken.
SpecSimFair == SpecSim /\ WF_vars(NextSim)

-----------------------------------------------------------------------------
(* One request to POST /suggest *)

MaxHand == 3        \* length of a hand drawn freely from HandTokens

KD == Tok(13, 2)

S5 == Tok(5, 4)

KDblank == <<" ">> \o Tok(13, 2)

Zhearts == <<"Z">> \o <<"-">> \o SUITS[1]

\* Two cards, a second spelling of the first, and a token that does not parse.
HandTokens == {KD, S5, KDblank, Zhearts}

\* The hand of the advisor scenario: Ah 2h 3h Ks 5d.
AdvisorHand == << Tok(1, 1), Tok(2, 1), Tok(3, 1), Tok(13, 4), Tok(5, 2) >>

RequestHands == SeqsUpTo(HandTokens, MaxHand) \cup {AdvisorHand}

\* The deck without the cards of U, in deck order.
DeckWithout(U) == SelectSeq(build_deck, LAMBDA c : c \notin U)

\* visible lists: nothing; all of the deck but a few cards (3h, 9c, Kd, 4s), so
\* that little is unknown; and one with a repeated entry and an entry that
\* does not parse.
VisibleChoices ==
    { << >>,
      DeckWithout({}),
      DeckWithout({Tok(3, 1)}),
      DeckWithout({Tok(3, 1), Tok(9, 3)}),
      DeckWithout({KD}),
      DeckWithout({Tok(3, 1), KD}),
      DeckWithout({Tok(3, 1), Tok(9, 3), Tok(4, 4)}) \o << Zhearts, Tok(4, 4), Tok(4, 4) >> }

\* (trials, max_draws): inside their ranges, and just outside.
ParamChoices ==
    { <<50, 1>>, <<50, 2>>, <<200, 2>>, <<500, 1>>, <<2000, 1>>,
      <<49, 2>>, <<2001, 2>>, <<50, 0>>, <<50, 11>> }

\* The requests explored.  Every candidate whose trials depend on the shuffle
\* multiplies the lists of suggestions by trials + 1, so an unknown deck of
\* two cards goes with a hand of at most two cards and 50 trials, and a larger
\* one with a hand of one card and one draw.
Explored(r) ==
    LET u == Len(UnknownDeck(r.my_hand, r.visible))
    IN  \/ u <= 1
        \/ u = 2 /\ Len(r.my_hand) \in {1, 2} /\ r.trials = 50
        \/ Len(r.my_hand) = 1 /\ r.max_draws = 1

Requests ==
    {r \in {[my_hand |-> h, visible |-> v, trials |-> p[1], max_draws |-> p[2]] :
                h \in RequestHands, v \in VisibleChoices, p \in ParamChoices} :
        Explored(r)}

Init ==
    /\ pc = "received"
    /\ request \in Requests
    /\ unknown_deck = << >>
    /\ current_deadwood = 0
    /\ results = << >>
    /\ next_card = 0
    /\ sim_calls = 0
    /\ win_prob = Frac(0, 1)
    /\ normalized_prob = Frac(0, 1)
    /\ response = [status |-> 0]
    /\ IdleMeld
    /\ IdleConf
    /\ IdleSim
    /\ IdleRng

\* The constraints of the model SuggestRequest; a body that breaks one never
\* reaches the handler.
ValidRequest(r) ==
    /\ Len(r.my_hand) >= 1
    /\ Len(r.my_hand) <= 13
    /\ r.trials >= 50 /\ r.trials <= 2000
    /\ r.max_draws >= 1 /\ r.max_draws <= 10

BuildRequest ==
    /\ pc = "received"
    /\ IF ValidRequest(request)
       THEN pc' = "handler" /\ UNCHANGED response
       ELSE pc' = "done" /\ response' = [status |-> 422, detail |-> << "ValidationError" >>]
    /\ UNCHANGED <<request, unknown_deck, current_deadwood, results, next_card,
                   sim_calls, win_prob, normalized_prob>>
    /\ UNCHANGED <<meldVars, confVars, simVars, rngVars>>

\* repr of a str without a backslash or a double quote: in single quotes, in
\* double quotes when it holds a single quote.
Repr(str) ==
    IF "'" \in Range(str) THEN << "\"" >> \o str \o << "\"" >>
    ELSE << "'" >> \o str \o << "'" >>

\* ", ".join of the repr of the entries i.. of strs.
RECURSIVE JoinRepr(_, _)
JoinRepr(strs, i) ==
    IF i > Len(strs) THEN << >>
    ELSE (IF i > 1 THEN << ",", " " >> ELSE << >>) \o Repr(strs[i]) \o JoinRepr(strs, i + 1)

\* repr of a list of str.
ReprList(strs) == << "[" >> \o JoinRepr(strs, 1) \o << "]" >>

\* The detail f"Invalid card format(s): {invalid_cards}. Expected format: ...":
\* the text before the list, the list as formatted, the text after it.
InvalidFormatDetail(invalid_cards) ==
    << "Invalid card format(s): ", ReprList(invalid_cards),
       ". Expected format: 'Rank-Suit' (e.g., 'A-hearts')" >>

\* A variant of Rejection without the check of the unknown deck.
Rejection_DeckUnchecked(my_hand, deck) ==
    LET invalid_cards == Picked(my_hand, {i \in DOMAIN my_hand : Parsed(my_hand[i]) = None})
    IN  IF invalid_cards # << >>
        THEN InvalidFormatDetail(invalid_cards)
        ELSE IF Len(my_hand) # Cardinality(Range(my_hand))
        THEN << "Duplicate cards found in hand" >>
        ELSE None

\* A variant of Rejection that looks for a repeated token before it looks at
\* the format of the tokens.
Rejection_DuplicatesFirst(my_hand, deck) ==
    LET invalid_cards == Picked(my_hand, {i \in DOMAIN my_hand : Parsed(my_hand[i]) = None})
    IN  IF Len(my_hand) # Cardinality(Range(my_hand))
        THEN << "Duplicate cards found in hand" >>
        ELSE IF invalid_cards # << >>
        THEN InvalidFormatDetail(invalid_cards)
        ELSE IF Len(deck) = 0
        THEN << "No unknown cards remaining in deck" >>
        ELSE None

\* The three checks of the handler, in its order: the detail of the
\* HTTPException(400) raised as the list of its parts, None when the hand
\* passes.  deck is the
\* unknown_deck the handler builds between the second check and the third.
Rejection(my_hand, deck) ==
    LET invalid_cards == Picked(my_hand, {i \in DOMAIN my_hand : Parsed(my_hand[i]) = None})
    IN  IF invalid_cards # << >>
        THEN InvalidFormatDetail(invalid_cards)
        ELSE IF Len(my_hand) # Cardinality(Range(my_hand))
        THEN << "Duplicate cards found in hand" >>
        ELSE IF Len(deck) = 0
        THEN << "No unknown cards remaining in deck" >>
        ELSE None

\* The handler up to the loop over the hand: the three checks, the unknown
\* deck, current_deadwood.
ValidateHand ==
    /\ pc = "handler"
    /\ LET deck == UnknownDeck(request.my_hand, request.visible)
           detail == Rejection(request.my_hand, deck)
       IN  IF detail # None
           THEN /\ response' = [status |-> 400, detail |-> detail]
                /\ pc' = "done"
                /\ UNCHANGED <<unknown_deck, current_deadwood, results, next_card>>
           ELSE /\ unknown_deck' = deck
                /\ current_deadwood' = calculate_deadwood(request.my_hand)
                /\ results' = << >>
                /\ next_card' = 1
                /\ pc' = "loop"
                /\ UNCHANGED response
    /\ UNCHANGED <<request, sim_calls, win_prob, normalized_prob>>
    /\ UNCHANGED <<meldVars, confVars, simVars, rngVars>>

\* One iteration of the loop over card_to_discard.  A suggestion the model
\* DiscardSuggestion refuses is an exception, answered with 500.
SimulateCandidate ==
    /\ pc = "loop"
    /\ next_card <= Len(request.my_hand)
    /\ LET card_to_discard == request.my_hand[next_card]
           remaining_hand == RemoveAll(request.my_hand, card_to_discard)
       IN  \E sim \in simulate_game(remaining_hand, unknown_deck, request.trials,
                                    request.max_draws) :
              LET prob == NormalizedProb(sim.avg_deadwood, sim.improvement_prob,
                                         current_deadwood)
                  sug == Suggestion(card_to_discard, prob, sim.avg_deadwood,
                                    request.trials)
              IN  /\ win_prob' = sim.improvement_prob
                  /\ normalized_prob' = prob
                  /\ IF ValidSuggestion(sug)
                     THEN /\ results' = Append(results, sug)
                          /\ next_card' = next_card + 1
                          /\ UNCHANGED <<pc, response>>
                     ELSE /\ response' = [status |-> 500,
                                          detail |-> << "Internal server error: ", "ValidationError" >>]
                          /\ pc' = "done"
                          /\ UNCHANGED <<results, next_card>>
    /\ sim_calls' = sim_calls + 1
    /\ UNCHANGED <<request, unknown_deck, current_deadwood>>
    /\ UNCHANGED <<meldVars, confVars, simVars, rngVars>>

\* The tail of the handler: the sort, the message, the response.
Respond ==
    /\ pc = "loop"
    /\ next_card > Len(request.my_hand)
    /\ response' = SuggestResponse(results, current_deadwood)
    /\ pc' = "done"
    /\ UNCHANGED <<request, unknown_deck, current_deadwood, results, next_card,
                   sim_calls, win_prob, normalized_prob>>
    /\ UNCHANGED <<meldVars, confVars, simVars, rngVars>>

Next ==
    \/ BuildRequest
    \/ ValidateHand
    \/ SimulateCandidate
    \/ Respond

Spec == Init /\ [][Next]_vars

-----------------------------------------------------------------------------
(* Calls that follow one another in one process.  random.shuffle works on   *)
(* the generator of the module random, which no call seeds or replaces; the *)
(* handler is a coroutine without an await, so a request runs from its      *)
(* beginning to its end before the next one starts.                         *)

RngModulus == 16    \* the generator has the states 0..RngModulus - 1
MaxServed == 2      \* calls made in one run

\* The generator after it gave out one number.
NextRng(g) == (5 * g + 3) % RngModulus

\* _randbelow(n): a number of 0..n-1 taken from the high bits of the state g.
RandBelow(g, n) == (g \div 4) % n

\* random.shuffle(xs) from position i down: j = _randbelow(i), the entries at
\* i and at j + 1 change places.  The list shuffled and the generator after it.
RECURSIVE ShuffleFrom(_, _, _)
ShuffleFrom(xs, i, g) ==
    IF i < 2 THEN [list |-> xs, rng |-> g]
    ELSE ShuffleFrom([xs EXCEPT ![i] = xs[RandBelow(g, i) + 1],
                                ![RandBelow(g, i) + 1] = xs[i]],
                     i - 1, NextRng(g))

Shuffle(xs, g) == ShuffleFrom(xs, Len(xs), g)

\* The generator at the start of each of n trials that follow one another:
\* a trial takes the generator as the shuffle of the trial before left it.
\* The trials are taken half by half, the second half from where the first
\* half ended.
RECURSIVE RngBefore(_, _, _), RngBeforeRest(_, _, _)
RngBefore(deck, g, n) ==
    IF n <= 0 THEN << >>
    ELSE IF n = 1 THEN <<g>>
    ELSE RngBeforeRest(deck, RngBefore(deck, g, n \div 2), n - (n \div 2))

RngBeforeRest(deck, gs, n) ==
    gs \o RngBefore(deck, Shuffle(deck, gs[Len(gs)]).rng, n)

\* deck_copy of each trial after random.shuffle.
ShuffledDecks(deck, gs) == [k \in DOMAIN gs |-> Shuffle(deck, gs[k]).list]

TrialResults(tokens, decks, max_draws, initial) ==
    [k \in DOMAIN decks |-> TrialResult(tokens, decks[k], max_draws, initial)]

AddTrial(acc, outcome) ==
    [best_deadwood |-> acc.best_deadwood + outcome.best_deadwood,
     improvements |-> acc.improvements + outcome.improvements]

\* What the trials lo..hi add to total_deadwood and to improvements, half
\* by half.
RECURSIVE SumTrials(_, _, _)
SumTrials(outcomes, lo, hi) ==
    IF lo > hi THEN [best_deadwood |-> 0, improvements |-> 0]
    ELSE IF lo = hi THEN outcomes[lo]
    ELSE AddTrial(SumTrials(outcomes, lo, (lo + hi) \div 2),
                  SumTrials(outcomes, (lo + hi) \div 2 + 1, hi))

Averages(sums, trials) ==
    [avg_deadwood |-> Frac(sums.best_deadwood, trials),
     improvement_prob |-> Frac(sums.improvements, trials)]

\* The trials that start with the generator states gs.
SimulatedFrom(tokens, deck, max_draws, trials, gs) ==
    [ret |-> Averages(SumTrials(TrialResults(tokens, ShuffledDecks(deck, gs), max_draws,
                                             calculate_deadwood(tokens)),
                                1, Len(gs)),
                      trials),
     rng |-> Shuffle(deck, gs[Len(gs)]).rng,
     perms |-> ShuffledDecks(deck, gs)]

\* simulate_game for trials > 0 with the generator in state g: what it
\* returns, the generator it leaves behind, the shuffled decks of its trials.
simulate_game_on(tokens, deck, trials, max_draws, g) ==
    IF deck = << >>
    THEN [ret |-> [avg_deadwood |-> Frac(calculate_deadwood(tokens), 1),
                   improvement_prob |-> Frac(0, 1)],
          rng |-> g,
          perms |-> << >>]
    ELSE SimulatedFrom(tokens, deck, max_draws, trials, RngBefore(deck, g, trials))

\* acc after the loop iteration of card_to_discard, whose simulation gave sim.
CandidateOn(acc, card_to_discard, sim, cur_deadwood, trials) ==
    [results |->
        Append(acc.results,
               Suggestion(card_to_discard,
                          NormalizedProb(sim.ret.avg_deadwood, sim.ret.improvement_prob,
                                         cur_deadwood),
                          sim.ret.avg_deadwood, trials)),
     rng |-> sim.rng]

\* The loop over card_to_discard from position i on.
RECURSIVE CandidatesFrom(_, _, _, _, _)
CandidatesFrom(r, deck, cur_deadwood, i, acc) ==
    IF i > Len(r.my_hand) THEN acc
    ELSE CandidatesFrom(r, deck, cur_deadwood, i + 1,
            CandidateOn(acc, r.my_hand[i],
                        simulate_game_on(RemoveAll(r.my_hand, r.my_hand[i]), deck,
                                         r.trials, r.max_draws, acc.rng),
                        cur_deadwood, r.trials))

Answer(acc, cur_deadwood) ==
    [response |-> SuggestResponse(acc.results, cur_deadwood), rng |-> acc.rng]

\* The handler after its checks gave detail.
HandleChecked(r, deck, detail, g) ==
    IF detail # None THEN [response |-> [status |-> 400, detail |-> detail], rng |-> g]
    ELSE Answer(CandidatesFrom(r, deck, calculate_deadwood(r.my_hand), 1,
                               [results |-> << >>, rng |-> g]),
                calculate_deadwood(r.my_hand))

\* The request r served with the generator in state g: the response, and the
\* generator the request leaves behind.
suggest_discard_on(r, g) ==
    IF ~ValidRequest(r)
    THEN [response |-> [status |-> 422, detail |-> << "ValidationError" >>], rng |-> g]
    ELSE HandleChecked(r, UnknownDeck(r.my_hand, r.visible),
                       Rejection(r.my_hand, UnknownDeck(r.my_hand, r.visible)), g)

\* The calls of simulate_game made: hands Kd 5s and Ah 2h, decks of two and of
\* three cards.
RngSimCalls ==
    {[hand |-> h, unknown_deck |-> d, trials |-> t, max_draws |-> m] :
        h \in {<< KD, S5 >>, << Tok(1, 1), Tok(2, 1) >>},
        d \in {<< Tok(3, 1), Tok(9, 3) >>, << Tok(3, 1), Tok(9, 3), Tok(4, 4) >>},
        t \in 1..2, m \in 1..1}

\* The requests made: two cards unknown, or one, or none.
RngRequests ==
    {[my_hand |-> h, visible |-> v, trials |-> 50, max_draws |-> m] :
        h \in {<< KD, S5 >>, << S5 >>},
        v \in {DeckWithout({Tok(3, 1), Tok(9, 3)}), DeckWithout({})},
        m \in 1..1}

InitRng ==
    /\ rng \in 0..(RngModulus - 1)
    /\ served = << >>
    /\ IdleMeld
    /\ IdleConf
    /\ IdleSim
    /\ IdleReq

\* A call of simulate_game, from its first statement to its return.
RngSimulateGame ==
    /\ Len(served) < MaxServed
    /\ \E a \in RngSimCalls :
          LET sim == simulate_game_on(a.hand, a.unknown_deck, a.trials, a.max_draws, rng)
          IN  /\ served' = Append(served, [op |-> "simulate_game", args |-> a,
                                           before |-> rng, perms |-> sim.perms,
                                           ret |-> sim.ret])
              /\ rng' = sim.rng
    /\ UNCHANGED <<meldVars, confVars, simVars, reqVars>>

\* A request to POST /suggest, from its arrival to its response.
RngSuggestDiscard ==
    /\ Len(served) < MaxServed
    /\ \E r \in RngRequests :
          LET done == suggest_discard_on(r, rng)
          IN  /\ served' = Append(served, [op |-> "suggest_discard", args |-> r,
                                           before |-> rng, response |-> done.response])
              /\ rng' = done.rng
    /\ UNCHANGED <<meldVars, confVars, simVars, reqVars>>

NextRngCalls == RngSimulateGame \/ RngSuggestDiscard

SpecRng == InitRng /\ [][NextRngCalls]_vars

-----------------------------------------------------------------------------
(* Properties of the evaluator (SpecMeld) *)

\* The deadwood table as the rules give it: A = 1, 2..9 their face value,
\* 10 J Q K = 10.  rank_val is 1 for A, 2..10, 11 12 13 for J Q K.
DeadwoodValue(rank_val) == IF rank_val >= 10 THEN 10 ELSE rank_val

RECURSIVE SumDeadwoodValue(_, _)
SumDeadwoodValue(parsed_hand, S) ==
    IF S = {} THEN 0
    ELSE LET i == CHOOSE j \in S : TRUE
         IN  DeadwoodValue(parsed_hand[i][1]) + SumDeadwoodValue(parsed_hand, S \ {i})

\* The positions of parsed_hand that find_melds leaves unmatched.
Unmatched(parsed_hand) == DOMAIN parsed_hand \ find_melds(parsed_hand).matched_indices

\* C1: calculate_deadwood returns the sum of DeadwoodValue over the positions
\* of the parsed hand that find_melds did not match; it is >= 0, and 0 exactly
\* when every card that parses is matched.
C1_DeadwoodIsSumOfUnmatched ==
    out.op = "calculate_deadwood" =>
        /\ out.val = SumDeadwoodValue(ParsedHand(hand), Unmatched(ParsedHand(hand)))
        /\ out.val >= 0
        /\ (out.val = 0) <=> (Unmatched(ParsedHand(hand)) = {})

\* A hand with a meld and a face card left over.
C1_Witness ==
    /\ out.op = "calculate_deadwood"
    /\ out.val >= 10
    /\ find_melds(ParsedHand(hand)).matched_indices # {}
    /\ \E i \in Unmatched(ParsedHand(hand)) : ParsedHand(hand)[i][1] > 10

NoDuplicateCard(parsed_hand) ==
    \A i, j \in DOMAIN parsed_hand : parsed_hand[i] = parsed_hand[j] => i = j

\* 3 or 4 cards of one rank, their suits pairwise distinct.
IsSetMeld(meld) ==
    /\ Len(meld) \in {3, 4}
    /\ \A i, j \in DOMAIN meld : meld[i][1] = meld[j][1]
    /\ \A i, j \in DOMAIN meld : meld[i][2] = meld[j][2] => i = j

\* 3 or more cards of one suit, their ranks strictly consecutive.
IsRunMeld(meld) ==
    /\ Len(meld) >= 3
    /\ \A i, j \in DOMAIN meld : meld[i][2] = meld[j][2]
    /\ \E lo \in 1..13 : {meld[i][1] : i \in DOMAIN meld} = lo..(lo + Len(meld) - 1)

\* The positions of parsed_hand whose card is in meld.
MeldIndices(parsed_hand, meld) == {i \in DOMAIN parsed_hand : parsed_hand[i] \in Range(meld)}

\* C2: on a hand without a duplicate card every meld find_melds returns is a
\* valid set or run of cards of the hand, no position is in two melds, and
\* matched_indices is the union of the positions the melds use.
C2_MeldsValidAndDisjoint ==
    (out.op = "find_melds" /\ NoDuplicateCard(ParsedHand(hand))) =>
        /\ \A k \in DOMAIN out.val.melds :
              /\ IsSetMeld(out.val.melds[k]) \/ IsRunMeld(out.val.melds[k])
              /\ Range(out.val.melds[k]) \subseteq Range(ParsedHand(hand))
        /\ \A k, l \in DOMAIN out.val.melds :
              k # l => MeldIndices(ParsedHand(hand), out.val.melds[k])
                          \cap MeldIndices(ParsedHand(hand), out.val.melds[l]) = {}
        /\ out.val.matched_indices =
              UNION {MeldIndices(ParsedHand(hand), out.val.melds[k]) :
                        k \in DOMAIN out.val.melds}

\* A hand without a duplicate that gives a set and a run, the run in the suit
\* of a card of the rank of the set.
C2_Witness ==
    /\ out.op = "find_melds"
    /\ NoDuplicateCard(ParsedHand(hand))
    /\ \E k, l \in DOMAIN out.val.melds :
          /\ IsSetMeld(out.val.melds[k])
          /\ IsRunMeld(out.val.melds[l])
          /\ \E i \in DOMAIN hand :
                /\ Parsed(hand[i])[1] = out.val.melds[k][1][1]
                /\ Parsed(hand[i])[2] = out.val.melds[l][1][2]

-----------------------------------------------------------------------------
(* Properties of get_confidence_level (SpecConf) *)

\* The table of thresholds, in hundredths: <<high, medium>> per tier of trials.
Thresholds(trials) ==
    IF trials >= 500 THEN <<70, 40>>
    ELSE IF trials >= 200 THEN <<75, 45>>
    ELSE <<80, 50>>

\* classify(prob, trials) as the table gives it.
Classify(prob, trials) ==
    IF prob.num * 100 >= Thresholds(trials)[1] * prob.den THEN "high"
    ELSE IF prob.num * 100 >= Thresholds(trials)[2] * prob.den THEN "medium"
    ELSE "low"

LabelRank(label) == CASE label = "low" -> 1 [] label = "medium" -> 2 [] label = "high" -> 3

\* C7: get_confidence_level returns the label of the table of thresholds
\* (0.70, 0.40) for trials >= 500, (0.75, 0.45) for 200..499, (0.80, 0.50)
\* below 200, a threshold being met by a prob equal to it; and for a prob
\* held fixed a larger trials never gives a lower label.
C7_ConfidenceThresholds ==
    conf_label # "none" =>
        /\ conf_label = Classify(conf_prob, conf_trials)
        /\ \A t \in ConfTrials :
              t >= conf_trials =>
                  LabelRank(get_confidence_level(conf_prob, t)) >= LabelRank(conf_label)

\* A prob on the high threshold of the top tier: high at 500 trials, medium at 499.
C7_Witness ==
    /\ conf_label = "high"
    /\ conf_trials = 500
    /\ conf_prob = Frac(7, 10)
    /\ get_confidence_level(conf_prob, 499) = "medium"

-----------------------------------------------------------------------------
(* Properties of simulate_game (SpecSim) *)

\* C8: with an empty unknown_deck simulate_game returns
\* (calculate_deadwood(hand), 0.0) whatever trials and max_draws are, and no
\* trial runs: nothing is shuffled and nothing is drawn.
C8_EmptyDeckReturnsAtOnce ==
    sim_deck = << >> =>
        /\ n_shuffles = 0
        /\ n_draws = 0
        /\ trial = 0
        /\ sim_pc \in {"idle", "call", "done"}
        /\ sim_pc = "done" =>
              sim_ret = [kind |-> "return",
                         avg_deadwood |-> Frac(Deadwood(sim_hand), 1),
                         improvement_prob |-> Frac(0, 1)]

\* A call with an empty deck, a hand with deadwood and the most trials, returned.
C8_Witness ==
    /\ sim_pc = "done"
    /\ sim_deck = << >>
    /\ sim_trials = MaxTrials
    /\ sim_max_draws = MaxDrawsSim
    /\ sim_ret.kind = "return"
    /\ sim_ret.avg_deadwood.num > 0

-----------------------------------------------------------------------------
(* Properties of suggest_discard (Spec) *)

\* The request was answered with suggestions.
Answered == pc = "done" /\ response.status = 200

\* The number of entries of the list xs equal to x.
Count(xs, x) == Cardinality({i \in DOMAIN xs : xs[i] = x})

SuggestedCards == [i \in DOMAIN response.suggestions |-> response.suggestions[i].card]

\* C3: a request that passes validation is answered with one suggestion per
\* entry of the hand: as many suggestions as entries, their cards a
\* permutation of the tokens of the hand.
C3_OneSuggestionPerCard ==
    Answered =>
        /\ Len(response.suggestions) = Len(request.my_hand)
        /\ \A t \in Range(request.my_hand) \cup Range(SuggestedCards) :
              Count(SuggestedCards, t) = Count(request.my_hand, t)

\* An answer for a hand of five cards whose suggestions are not in hand order.
C3_Witness ==
    /\ Answered
    /\ Len(request.my_hand) = 5
    /\ SuggestedCards # request.my_hand

\* C4: the suggestions of a response are in order of non-increasing
\* win_probability, and two adjacent ones of equal win_probability in order
\* of non-decreasing expected_deadwood.
C4_SuggestionsSorted ==
    Answered =>
        \A i \in 1..(Len(response.suggestions) - 1) :
            LET a == response.suggestions[i]
                b == response.suggestions[i + 1]
            IN  /\ a.win_probability.num * b.win_probability.den
                      >= b.win_probability.num * a.win_probability.den
                /\ a.win_probability = b.win_probability =>
                      a.expected_deadwood.num * b.expected_deadwood.den
                          <= b.expected_deadwood.num * a.expected_deadwood.den

\* An answer in which the sort moved a suggestion ahead of one of equal
\* win_probability and larger expected_deadwood that the loop appended first.
C4_Witness ==
    /\ Answered
    /\ \E i, j \in DOMAIN results :
          /\ i < j
          /\ results[i].win_probability = results[j].win_probability
          /\ RatLess(results[j].expected_deadwood, results[i].expected_deadwood)
          /\ \E k, l \in DOMAIN response.suggestions :
                /\ k < l
                /\ response.suggestions[k] = results[j]
                /\ response.suggestions[l] = results[i]

\* Every suggestion built so far, and every suggestion of the response.
AllSuggestions ==
    Range(results) \cup (IF Answered THEN Range(response.suggestions) ELSE {})

\* C5: every suggestion has a win_probability in [0, 1], whatever the request,
\* also when simulate_game returned an improvement rate above 1; such a run
\* is answered with suggestions, not with the internal error.
C5_WinProbabilityInUnitInterval ==
    /\ \A sug \in AllSuggestions :
          /\ sug.win_probability.num >= 0
          /\ sug.win_probability.num <= sug.win_probability.den
    /\ response.status # 500

\* simulate_game returned an improvement rate above 1, normalized_prob is
\* above 1 too, and the suggestion appended reports 1.
C5_Witness ==
    /\ pc = "loop"
    /\ RatLess(Frac(1, 1), win_prob)
    /\ RatLess(Frac(1, 1), normalized_prob)
    /\ results # << >>
    /\ results[Len(results)].win_probability = Frac(1, 1)

\* C6: the confidence of every suggestion is classify of the win_probability
\* the suggestion reports (the clamped value) and the trials of the request.
C6_ConfidenceOfReportedProbability ==
    \A sug \in AllSuggestions :
        sug.confidence = Classify(sug.win_probability, request.trials)

\* An answer whose last candidate had a normalized_prob above 1: its
\* suggestion reports 1 and is labelled high.
C6_Witness ==
    /\ Answered
    /\ RatLess(Frac(1, 1), normalized_prob)
    /\ \E i \in DOMAIN response.suggestions :
          /\ response.suggestions[i].card = request.my_hand[Len(request.my_hand)]
          /\ response.suggestions[i].win_probability = Frac(1, 1)
          /\ response.suggestions[i].confidence = "high"

\* The cards a token denotes under the grammar of the tokens: a rank of RANKS,
\* "-" and a suit of SUITS, each part with or without a blank around it.
Blanks == {<< >>, << " " >>}

Denoted ==
    [t \in ModelTokens |->
        {c \in (1..13) \X Range(SUITS) :
            \E a, b, m, n \in Blanks :
                t = a \o RANKS[c[1]] \o b \o << "-" >> \o m \o c[2] \o n}]

\* The tokens of the hand that denote no card, in hand order.
Unparseable(my_hand) == SelectSeq(my_hand, LAMBDA t : Denoted[t] = {})

\* The handler has run on the request and the request is answered.
Handled == pc = "done" /\ ValidRequest(request)

\* The strings a formatted list shows between single quotes.
Quoted(text) ==
    LET parts == Split(text, "'")
    IN  [i \in 1..(Len(parts) \div 2) |-> parts[2 * i]]

\* C9: when a token of the hand does not parse the handler answers 400 with
\* the invalid-format detail, which lists the tokens that do not parse and no
\* other, in hand order, whether or not the hand repeats a token as well.
C9_InvalidFormatFirst ==
    (Handled /\ Unparseable(request.my_hand) # << >>) =>
        /\ response.status = 400
        /\ Len(response.detail) = 3
        /\ response.detail[1] = "Invalid card format(s): "
        /\ Quoted(response.detail[2]) = Unparseable(request.my_hand)

\* A hand that repeats a token and holds one that does not parse, answered.
C9_Witness ==
    /\ Handled
    /\ Unparseable(request.my_hand) # << >>
    /\ Len(Unparseable(request.my_hand)) < Len(request.my_hand)
    /\ Len(request.my_hand) # Cardinality(Range(request.my_hand))
    /\ response.status = 400

\* C10: a hand that passes the checks of the handler has no two entries that
\* denote the same card; simulate_game never runs on a hand that has.
C10_NoCardTwicePastValidation ==
    (pc = "loop" \/ sim_calls > 0 \/ Answered) =>
        \A i, j \in DOMAIN request.my_hand :
            Denoted[request.my_hand[i]] \cap Denoted[request.my_hand[j]] # {} => i = j

\* The cards the tokens of a list denote.
CardsOf(tokens) == UNION {Denoted[tokens[i]] : i \in DOMAIN tokens}

\* The cards of the deck that are neither in the hand nor visible.
UnknownCards(my_hand, visible) ==
    {c \in (1..13) \X Range(SUITS) : c \notin CardsOf(my_hand) \cup CardsOf(visible)}

\* Every token of the hand denotes a card and no token occurs twice.
ValidHand(my_hand) ==
    /\ Unparseable(my_hand) = << >>
    /\ \A i, j \in DOMAIN my_hand : my_hand[i] = my_hand[j] => i = j

DeckExhausted == [status |-> 400, detail |-> << "No unknown cards remaining in deck" >>]

\* C11: on a valid hand the request is answered with the deck-exhausted error,
\* and with no suggestion, exactly when no card of the deck is left once the
\* cards of the hand and the visible cards are taken out.
C11_DeckExhaustedIffNoUnknownCard ==
    (Handled /\ ValidHand(request.my_hand)) =>
        IF UnknownCards(request.my_hand, request.visible) = {}
        THEN response = DeckExhausted /\ results = << >>
        ELSE response # DeckExhausted

\* The tokens of the deck that are neither a token of the hand nor of visible.
UnknownTokens(my_hand, visible) ==
    {t \in Range(build_deck) : t \notin Range(my_hand) /\ t \notin Range(visible)}

\* A validation check fails on the request: a bound of the body, the format of
\* a token of the hand, a token twice in the hand, nothing unknown left.
CheckFails ==
    \/ ~ValidRequest(request)
    \/ Unparseable(request.my_hand) # << >>
    \/ \E i, j \in DOMAIN request.my_hand : i # j /\ request.my_hand[i] = request.my_hand[j]
    \/ UnknownTokens(request.my_hand, request.visible) = {}

\* C12: simulate_game is called, and a suggestion built, only after every
\* validation check has passed; a request that fails a check is answered with
\* the client error of the check (400, or 422 for the bounds of the body),
\* never with the internal error, without a call of simulate_game and without
\* a suggestion.
C12_ValidationBeforeSimulation ==
    /\ (sim_calls > 0 \/ results # << >>) => ~CheckFails
    /\ (pc = "done" /\ CheckFails) =>
          /\ response.status \in {400, 422}
          /\ "suggestions" \notin DOMAIN response
          /\ sim_calls = 0

\* A request whose hand is valid and whose only failing check is the last one,
\* the unknown deck, answered.
C12_Witness ==
    /\ pc = "done"
    /\ ValidRequest(request)
    /\ ValidHand(request.my_hand)
    /\ Len(request.my_hand) >= 2
    /\ UnknownTokens(request.my_hand, request.visible) = {}
    /\ response = DeckExhausted
    /\ sim_calls = 0

\* C13: the unknown deck of a request that passed validation, the one every
\* simulate_game is given, is the deck in build_deck order without the cards of
\* the hand and the cards of visible; no card of it is a card of the hand.
C13_UnknownDeckIsDeckMinusCards ==
    (pc = "loop" \/ sim_calls > 0) =>
        /\ unknown_deck =
              SelectSeq(build_deck,
                        LAMBDA t : Denoted[t] \subseteq
                                       UnknownCards(request.my_hand, request.visible))
        /\ CardsOf(unknown_deck) \cap CardsOf(request.my_hand) = {}

-----------------------------------------------------------------------------
(* Properties of the card codec (SpecParse) *)

\* text is word with nothing but whitespace before and after it.
TrimsTo(text, word) ==
    \E i \in 1..(Len(text) + 1) :
        /\ i + Len(word) - 1 <= Len(text)
        /\ SubSeq(text, i, i + Len(word) - 1) = word
        /\ \A k \in DOMAIN text :
              (k < i \/ k >= i + Len(word)) => text[k] \in {" ", "\t", "\n"}

\* The cards <<rank index, suit>> the string text spells: text holds one "-",
\* a rank of RANKS before it and a suit of SUITS after it, trimmed.
Spelled(text) ==
    {c \in (1..13) \X Range(SUITS) :
        \E i \in DOMAIN text :
            /\ text[i] = "-"
            /\ \A k \in DOMAIN text : text[k] = "-" => k = i
            /\ TrimsTo(SubSeq(text, 1, i - 1), RANKS[c[1]])
            /\ TrimsTo(SubSeq(text, i + 1, Len(text)), c[2])}

\* C14: parse_card returns the rank index and the suit exactly for the strings
\* that split on "-" into two parts that trim to a rank of RANKS and a suit of
\* SUITS, and None for every other string; validate_card answers valid for
\* the same strings.
C14_ParseCardAcceptsExactlyTheGrammar ==
    /\ out.op = "parse_card" =>
          IF Spelled(hand[1]) = {} THEN out.val = None
          ELSE Spelled(hand[1]) = {out.val}
    /\ out.op = "validate_card" => (out.val.valid <=> Spelled(hand[1]) # {})

\* A padded spelling of a card, parsed.
C14_Witness ==
    /\ out.op = "parse_card"
    /\ out.val = <<10, SUITS[4]>>
    /\ Len(hand[1]) > Len(Tok(10, 4)) + 2

-----------------------------------------------------------------------------
(* Properties of the trials (SpecSim) *)

\* The tokens of the hand and of the unknown deck are pairwise different: a
\* hand without a duplicate, a deck without a card of the hand, as the handler
\* passes them.
DistinctTokens ==
    LET tokens == sim_hand \o sim_deck
    IN  \A i, j \in DOMAIN tokens : tokens[i] = tokens[j] => i = j

\* The deadwood of cards with the single card at position i removed.
DeadwoodWithout(cards, i) == calculate_deadwood(RemoveAt(cards, i))

\* The position of candidateCard: the first that minimises the deadwood.
CandidateAt(cards) ==
    FirstOf({i \in DOMAIN cards :
                \A j \in DOMAIN cards :
                    DeadwoodWithout(cards, i) <= DeadwoodWithout(cards, j)})

\* What the draw step is to do with the hand and best_deadwood.
Committed(drawn_hand, at) ==
    /\ current_hand' = RemoveAt(drawn_hand, at)
    /\ best_deadwood' = DeadwoodWithout(drawn_hand, at)

Reverted ==
    /\ current_hand' = current_hand
    /\ best_deadwood' = best_deadwood

CommittedOrReverted(drawn_hand, at) ==
    IF DeadwoodWithout(drawn_hand, at) < best_deadwood
    THEN Committed(drawn_hand, at)
    ELSE Reverted

\* C17: every draw step of a trial appends the drawn card, takes as candidate
\* the first card in hand order whose removal leaves the least deadwood, and
\* commits if that deadwood is below best_deadwood (the candidate leaves the
\* hand, best_deadwood becomes the candidate's deadwood); otherwise it reverts
\* (the hand is what it was before the draw, best_deadwood is unchanged).
C17_DrawStepCommitsOrReverts ==
    [][(sim_pc = "draws" /\ draw_num' = draw_num + 1 /\ DistinctTokens) =>
          CommittedOrReverted(Append(current_hand, deck_copy[draw_num + 1]),
                              CandidateAt(Append(current_hand, deck_copy[draw_num + 1])))]_vars

\* A trial on Qc Js whose first draw committed, Qc, the first of the two
\* equally good cards, leaving the hand, and whose second draw reverted.
C17_Witness ==
    /\ sim_pc = "draws"
    /\ draw_num = 2
    /\ DistinctTokens
    /\ sim_hand = << Tok(12, 3), Tok(11, 4) >>
    /\ current_hand = << Tok(11, 4), deck_copy[1] >>
    /\ best_deadwood < initial_deadwood

\* A draw step that commits (best_deadwood falls) to a deadwood below
\* initial_deadwood adds one to improvements; any other draw step adds nothing.
DrawCounts ==
    improvements' = improvements
        + (IF best_deadwood' < best_deadwood /\ best_deadwood' < initial_deadwood
           THEN 1 ELSE 0)

\* Between the draws of a call the counter keeps its value: it is not set
\* back when a trial starts or ends.
CounterKept == sim_pc \in {"loop", "draws"} => improvements' = improvements

\* The rate returned is the counter over trials.
RateReturned ==
    (sim_pc' = "done" /\ sim_ret'.kind = "return" /\ sim_deck # << >>) =>
        sim_ret'.improvement_prob = Frac(improvements, sim_trials)

IsPermutation(xs, ys) ==
    /\ Len(xs) = Len(ys)
    /\ \A x \in Range(xs) \cup Range(ys) : Count(xs, x) = Count(ys, x)

\* The state a trial starts from.
TrialStartsAfresh ==
    /\ current_hand' = sim_hand
    /\ best_deadwood' = initial_deadwood
    /\ initial_deadwood = calculate_deadwood(sim_hand)
    /\ IsPermutation(deck_copy', sim_deck)

\* C19: no step of simulate_game changes the hand or the unknown deck of its
\* caller, and every trial starts with the caller's hand as working hand,
\* initial_deadwood as best_deadwood and a permutation of the whole unknown
\* deck, whatever the trials before it committed.
C19_CallerListsKeptTrialsStartAfresh ==
    [][/\ sim_hand' = sim_hand
       /\ sim_deck' = sim_deck
       /\ trial' = trial + 1 => TrialStartsAfresh]_vars

\* The second trial has started afresh after a first trial that committed: the
\* total holds less than initial_deadwood.
C19_Witness ==
    /\ sim_pc = "draws"
    /\ trial = 2
    /\ draw_num = 0
    /\ total_deadwood < initial_deadwood
    /\ current_hand = sim_hand
    /\ best_deadwood = initial_deadwood
    /\ Len(deck_copy) >= 2

-----------------------------------------------------------------------------
(* Properties of calls that follow one another (SpecRng) *)

\* C15: simulate_game is deterministic in its inputs and its random source.
\* Of two calls with the same hand, unknown deck, trials and max_draws, (a) if
\* their trials shuffle the deck the same way they return the same pair, and
\* (b) their trials do shuffle the deck the same way: a call is given no
\* source and seeds none, so what it shuffles may depend on nothing but its
\* arguments, not on what an earlier call left behind.
C15_SimulateGameDeterministic ==
    \A i, j \in DOMAIN served :
        (/\ served[i].op = "simulate_game"
         /\ served[j].op = "simulate_game"
         /\ served[i].args = served[j].args) =>
            /\ served[i].perms = served[j].perms => served[i].ret = served[j].ret
            /\ served[i].perms = served[j].perms

\* C16: a request shares no state with another request: whatever requests
\* were served before it, a request is answered as it is when it is the only
\* request made.
C16_RequestsIndependent ==
    \A i \in DOMAIN served :
        (\A j \in 1..i : served[j].op = "suggest_discard") =>
            served[i].response
                = suggest_discard_on(served[i].args, served[1].before).response

-----------------------------------------------------------------------------
(* Properties of the order of the two phases of find_melds (SpecMeld) *)

\* The suits in which parsed_hand holds the rank.
SuitsOfRank(parsed_hand, rank) ==
    {parsed_hand[i][2] : i \in {j \in DOMAIN parsed_hand : parsed_hand[j][1] = rank}}

InSetMeld(card, melds) ==
    \E k \in DOMAIN melds : IsSetMeld(melds[k]) /\ card \in Range(melds[k])

InRunMeld(card, melds) ==
    \E k \in DOMAIN melds : IsRunMeld(melds[k]) /\ card \in Range(melds[k])

\* 5h 5d 5c 6h 7h: the run 5h 6h 7h would leave 5d 5c, deadwood 10.
RunFirstExample == << Tok(5, 1), Tok(5, 2), Tok(5, 3), Tok(6, 1), Tok(7, 1) >>

-----------------------------------------------------------------------------
(* Properties of the runs of find_melds (SpecMeld) *)

\* The cards of parsed_hand that no set of melds holds.
LeftBySets(parsed_hand, melds) == {c \in Range(parsed_hand) : ~InSetMeld(c, melds)}

\* The cards of suit with the ranks lo..hi.
SuitSequence(suit, lo, hi) == {<<r, suit>> : r \in lo..hi}

\* The maximal sequences of left: cards of one suit with consecutive ranks
\* that no card of left extends below or above.
MaximalSequences(left) ==
    {seq \in SUBSET left :
        \E c \in seq :
            /\ seq = SuitSequence(c[2], c[1], c[1] + Cardinality(seq) - 1)
            /\ <<c[1] - 1, c[2]>> \notin left
            /\ <<c[1] + Cardinality(seq), c[2]>> \notin left}

\* The melds that cover seq: the same cards, each once.
MeldsCovering(seq, melds) ==
    {k \in DOMAIN melds : Range(melds[k]) = seq /\ Len(melds[k]) = Cardinality(seq)}

\* C21: on a hand without a duplicate card, among the cards no set holds, every
\* maximal sequence of cards of one suit with consecutive ranks that is 3 or
\* more long is one run of find_melds, whole and returned once, and the cards
\* of a maximal sequence 1 or 2 long are in no meld.
C21_MaximalRunsWhole ==
    (out.op = "find_melds" /\ NoDuplicateCard(ParsedHand(hand))) =>
        \A seq \in MaximalSequences(LeftBySets(ParsedHand(hand), out.val.melds)) :
            IF Cardinality(seq) >= 3
            THEN /\ Cardinality(MeldsCovering(seq, out.val.melds)) = 1
                 /\ \A k \in DOMAIN out.val.melds :
                       Range(out.val.melds[k]) \cap seq # {} =>
                           k \in MeldsCovering(seq, out.val.melds)
            ELSE \A k \in DOMAIN out.val.melds : Range(out.val.melds[k]) \cap seq = {}

\* A hand that gives a run of 4 and leaves a sequence of 2 cards unmatched.
C21_Witness ==
    /\ out.op = "find_melds"
    /\ NoDuplicateCard(ParsedHand(hand))
    /\ \E k \in DOMAIN out.val.melds :
          IsRunMeld(out.val.melds[k]) /\ Len(out.val.melds[k]) = 4
    /\ \E seq \in MaximalSequences(LeftBySets(ParsedHand(hand), out.val.melds)) :
          Cardinality(seq) = 2

-----------------------------------------------------------------------------
(* Properties of the order of the melds of find_melds (SpecMeld) *)

\* The sets come before the runs, the sets in ascending rank.
SetsFirstAscending(melds) ==
    \A k, l \in DOMAIN melds :
        k < l =>
            /\ IsRunMeld(melds[k]) => ~IsSetMeld(melds[l])
            /\ (IsSetMeld(melds[k]) /\ IsSetMeld(melds[l])) =>
                  melds[k][1][1] < melds[l][1][1]

\* The copies of the card that no set holds: a set holds a card once.
CopiesLeft(parsed_hand, melds, card) ==
    Count(parsed_hand, card)
        - Cardinality({k \in DOMAIN melds : IsSetMeld(melds[k]) /\ card \in Range(melds[k])})

\* The lowest rank of the suit among the cards that no set holds.
LowestLeft(parsed_hand, melds, suit) ==
    FirstOf({r \in 1..13 : CopiesLeft(parsed_hand, melds, <<r, suit>>) > 0})

\* suit1 occurs before suit2 among the cards no set holds, the hand being
\* sorted by rank and within a rank by suit name.
FirstSeenBefore(parsed_hand, melds, suit1, suit2) ==
    \/ LowestLeft(parsed_hand, melds, suit1) < LowestLeft(parsed_hand, melds, suit2)
    \/ /\ LowestLeft(parsed_hand, melds, suit1) = LowestLeft(parsed_hand, melds, suit2)
       /\ StrLess(suit1, suit2)

-----------------------------------------------------------------------------
(* Properties of the working hand of a trial (SpecSim) *)

\* best_deadwood is the deadwood of the working hand, which has as many cards
\* as the hand of the call and no card twice.
HandInStep(working, best) ==
    /\ best = calculate_deadwood(working)
    /\ Len(working) = Len(sim_hand)
    /\ NoDuplicateCard(ParsedHand(working))

\* C23: for a hand without a duplicate and an unknown deck without a card of
\* the hand, at the end of every draw step best_deadwood is
\* calculate_deadwood of the working hand, which has as many cards as the
\* hand of the call and no card twice; so what a trial adds to total_deadwood
\* is the deadwood of the hand the trial ends with.
C23_BestDeadwoodIsDeadwoodOfWorkingHand ==
    [][DistinctTokens =>
          /\ (sim_pc = "draws" /\ draw_num' = draw_num + 1) =>
                HandInStep(current_hand', best_deadwood')
          /\ (sim_pc = "draws" /\ sim_pc' = "loop") =>
                total_deadwood' = total_deadwood + calculate_deadwood(current_hand)]_vars

\* The first trial of a call has ended after two draw steps with another hand
\* than it started with, and has added the deadwood of that hand.
C23_Witness ==
    /\ sim_pc = "loop"
    /\ trial = 1
    /\ draw_num = 2
    /\ DistinctTokens
    /\ current_hand # sim_hand
    /\ total_deadwood = calculate_deadwood(current_hand)
    /\ total_deadwood < initial_deadwood

-----------------------------------------------------------------------------
(* Properties of best_deadwood (SpecSim) *)

\* best_after_draw of the draw step that draws the next card of deck_copy.
CandidateDeadwood ==
    BestDiscard(Append(current_hand, deck_copy[draw_num + 1]), 1, NoDiscard).best_after_draw

\* The draw step: the candidate is not above best_deadwood, which does not grow.
BestNotRaised ==
    (sim_pc = "draws" /\ draw_num' = draw_num + 1) =>
        /\ DistinctTokens => CandidateDeadwood <= best_deadwood
        /\ best_deadwood' <= best_deadwood

\* The end of a trial.
TrialEndsInRange ==
    (sim_pc = "draws" /\ sim_pc' = "loop") =>
        0 <= best_deadwood /\ best_deadwood <= initial_deadwood

\* The return of the call.
AverageInRange ==
    (sim_pc' = "done" /\ sim_ret'.kind = "return") =>
        /\ RatLeq(Frac(0, 1), sim_ret'.avg_deadwood)
        /\ RatLeq(sim_ret'.avg_deadwood, Frac(calculate_deadwood(sim_hand), 1))

\* C24: in every draw step (of a call whose hand and deck share no card) the
\* candidate's deadwood is at most best_deadwood; best_deadwood never grows in
\* a trial; every trial ends with 0 <= best_deadwood <= initial_deadwood; the
\* avg_deadwood returned is between 0 and calculate_deadwood(hand).
C24_BestDeadwoodNeverGrows ==
    [][BestNotRaised /\ TrialEndsInRange /\ AverageInRange]_vars

\* A call that drew cards has returned an average strictly between 0 and the
\* deadwood of its hand.
C24_Witness ==
    /\ sim_pc = "done"
    /\ sim_ret.kind = "return"
    /\ n_draws > 0
    /\ DistinctTokens
    /\ RatLess(Frac(0, 1), sim_ret.avg_deadwood)
    /\ RatLess(sim_ret.avg_deadwood, Frac(calculate_deadwood(sim_hand), 1))

-----------------------------------------------------------------------------
(* Properties of the improvement counter (SpecSim) *)

\* The draw step adds one to improvements if it commits, nothing if not.
CommitCounts ==
    (sim_pc = "draws" /\ draw_num' = draw_num + 1) =>
        /\ best_deadwood <= initial_deadwood
        /\ improvements' = improvements + (IF best_deadwood' < best_deadwood THEN 1 ELSE 0)

\* The rate returned is at most the number of draws of a trial.
RateBounded ==
    (sim_pc' = "done" /\ sim_ret'.kind = "return") =>
        RatLeq(sim_ret'.improvement_prob,
               Frac(NumDraws(sim_max_draws, sim_deck), 1))

-----------------------------------------------------------------------------
(* Properties of the loops of simulate_game (SpecSimFair) *)

\* min(max_draws, len(unknown_deck))
DrawsPerTrial == IF sim_max_draws <= Len(sim_deck) THEN sim_max_draws ELSE Len(sim_deck)

Started == sim_pc = "call" /\ sim_deck # << >> /\ sim_trials >= 1

\* The call has returned after trials trials of DrawsPerTrial draws each.
Finished ==
    /\ sim_pc = "done"
    /\ sim_ret.kind = "return"
    /\ trial = sim_trials
    /\ n_shuffles = sim_trials
    /\ n_draws = sim_trials * DrawsPerTrial

\* The draw step number draw_num + 1 of a trial is one of its first
\* DrawsPerTrial; the deck of the trial stays as shuffled, and the only card
\* that can come into the hand is the one at position draw_num + 1 of it.
DrawsInOrder ==
    (sim_pc = "draws" /\ draw_num' = draw_num + 1) =>
        /\ draw_num < DrawsPerTrial
        /\ deck_copy' = deck_copy
        /\ Range(current_hand') \subseteq Range(current_hand) \cup {deck_copy[draw_num + 1]}

\* A trial ends after DrawsPerTrial draw steps.
TrialComplete == (sim_pc = "draws" /\ sim_pc' = "loop") => draw_num = DrawsPerTrial

\* C26: with a non-empty unknown deck and trials >= 1 simulate_game returns
\* after exactly trials trials, each of exactly min(max_draws,
\* len(unknown_deck)) draw steps, which take the first cards of the trial's
\* shuffled deck in order, each position once.
C26_TerminatesAfterAllDraws ==
    /\ Started ~> Finished
    /\ [][DrawsInOrder /\ TrialComplete]_vars

\* A call of 2 trials on a deck of 3 cards with max_draws = 2 has returned
\* after 4 draws.
C26_Witness ==
    /\ Finished
    /\ sim_trials = 2
    /\ Len(sim_deck) = 3
    /\ sim_max_draws = 2
    /\ n_draws = 4

=============================================================================
